---- MODULE Spec2Model ----
(***************************************************************************)
(* Model of the chat-branches reconciliation code:                         *)
(*   StorageRebuilder (src/src/StorageRebuilder.js): the rebuild run, its  *)
(*     read pass with duplicate rejection, validateAndFixBranches and      *)
(*     sortBranchesForRegistration, and the batched registration loop;     *)
(*   ChatMigrator (src/unnamed/part_000): the batched migration run;       *)
(*   ChatTreeView (src/src/ChatTreeView.js): buildNodeMapFromTree,         *)
(*     findCurrentNode, isolateActiveTree, and the older findCurrentNode   *)
(*     kept in src/src/StorageRebuilder.js; startRename, confirmRename;    *)
(*   ChatRenameHandler (src/src/ChatTreeView.js): validateName;            *)
(*   the dialogs that start a bulk run: showRebuildDialog / startRebuild   *)
(*     and showMigrationDialog / startMigration;                           *)
(*   loadAndBuildTreeLegacy of the older ChatTreeView                      *)
(*     (src/src/StorageRebuilder.js): buildGraphLegacy and the loops of    *)
(*     isolateActiveTree and expandActivePath, one test at a time;         *)
(*   swapChat with its callers (the double-click handler and               *)
(*     handleRootChange) and confirmRename, one await at a time;           *)
(*   ensureChatUUID (src/src/ChatTreeView.js), one await at a time.        *)
(*                                                                         *)
(* Identifiers (uuids) are positive integers, Null (0) stands for          *)
(* null/undefined/absent.  Names are sequences of one-character strings.   *)
(***************************************************************************)
EXTENDS Integers, Sequences, FiniteSets, TLC

VARIABLES
    \* ---- the bulk runs (StorageRebuilder / ChatMigrator) ----
    run,               \* "rebuild" | "migrate" | "none": which bulk run this behaviour is
    chats,             \* what /api/characters/chats and /api/chats/get hold, in enumeration order
    env,               \* [fetchFails, store]: how the collaborators behave in this run
    pc,                \* position of the run
    i,                 \* loop index: read pass index, or index inside the current batch
    batchIndex,        \* index of the current batch
    branchDataList,    \* rebuild: records collected by the read pass
    uuidToChatName,    \* rebuild: Map uuid -> chat name of the collected records
    validatedBranches, \* rebuild: output of validateAndFixBranches
    sortedBranches,    \* rebuild: output of sortBranchesForRegistration
    processedCount,    \* rebuild counter
    skippedCount,      \* rebuild counter
    successCount,      \* migration counter
    errorCount,        \* migration counter
    progress,          \* every updateProgress(current, total) call, in order
    diag,              \* console diagnostics, in order
    store,             \* branch records the plugin store accepted, in order
    batches,           \* sizes of the batches processed so far, in order
    pauses,            \* number of inter-batch pauses taken
    result,            \* the returned result, or NoResult
    \* ---- the tree view (ChatTreeView) ----
    treeData,          \* the tree fetched from the plugin, flattened in pre-order
    nodeMap,           \* Map uuid -> node, in insertion order
    allTreeRoots,      \* all roots
    treeRoots,         \* the visible forest
    currentChatUUID,
    currentChatFile,
    currentNode,
    currentRootNode,
    nodes,             \* the internal nodes built from treeData, by position
    version,           \* which ChatTreeView runs: "ChatTreeView.js" | "StorageRebuilder.js"
    vpc,               \* position of loadAndBuildTree
    \* ---- per-item operations of a bulk run ----
    ops,               \* [item, phase]: every per-item operation started / settled, in order
    \* ---- renaming (ChatRenameHandler, ChatTreeView.confirmRename) ----
    lastIndex,         \* INVALID_CHARS.lastIndex of the handler's regular expression
    validation,        \* the last validateName call: its arguments and its result
    calls,             \* validateName calls made on the handler so far
    isRenaming,        \* ChatTreeView.isRenaming
    renameNode,        \* ChatTreeView.renameNode (a position in nodes), or Null
    renamed,           \* [uuid, name]: every rename the plugin store accepted, in order
    requests,          \* [kind, uuid, name]: every request performRename issued, in order
    characterChat,     \* characters[this_chid].chat: the chat the character has open
    \* ---- the dialogs that start a bulk run (showRebuildDialog / startRebuild) ----
    isRebuilding,      \* this.isRebuilding (this.isMigrating in the migrator)
    handlers,          \* position of every invocation of the dialog / start methods
    inFlight,          \* rebuildStorageFromChats / migrateAllChats calls not yet returned
    \* ---- the walks up the parent links (isolateActiveTree, expandActivePath) ----
    walk,              \* the local root / curr of the loop under way, or Null
    tests,             \* loop tests made by the walks, modulo 2: a test is a step of the
                       \* program also where it leaves every field as it was
    \* ---- asynchronous methods that can be invoked again while one is awaiting ----
    isSwappingChat,    \* ChatTreeView.isSwappingChat
    tasks,             \* [pc, name, uuid]: where every invocation of swapChat (from the
                       \* double-click handler or handleRootChange), of confirmRename or of
                       \* ensureChatUUID stands, and its arguments
    chat_metadata      \* [uuid, root_uuid] of the chat_metadata of the open chat, or Null
                       \* where no chat is followed (ensureChatUUID)

runVars == <<run, chats, env, pc, i, batchIndex, branchDataList, uuidToChatName,
             validatedBranches, sortedBranches, processedCount, skippedCount,
             successCount, errorCount, progress, diag, store, batches, pauses, result>>
viewVars == <<treeData, nodeMap, allTreeRoots, treeRoots, currentChatUUID,
              currentChatFile, currentNode, currentRootNode, nodes, version, vpc>>
renameVars == <<lastIndex, validation, calls, isRenaming, renameNode, renamed, requests,
                characterChat>>
guardVars == <<isRebuilding, handlers, inFlight>>
walkVars == <<walk, tests>>
taskVars == <<isSwappingChat, tasks, chat_metadata>>
ctlVars == <<renameVars, guardVars, walkVars, taskVars>>
vars == <<runVars, viewVars, ops, ctlVars>>

\* ------------------------------------------------------------------ bounds
MaxChats == 3       \* chat files of a character (Spec)
MaxUuid == 2        \* identifiers the chat files carry (Spec)
MaxBranches == 3    \* records of a batch handed to the pure functions (SpecSort)
MaxBatches == 2     \* full batches of a long run (SpecBulk)
MaxNodes == 3       \* nodes of the fetched tree (SpecView)
MaxForest == 2      \* nodes of the forest a name is validated against (SpecValidate, SpecRename)
MaxCalls == 3       \* validateName calls on one handler (SpecValidate, SpecRename)
MaxClicks == 3      \* invocations of the dialog / start methods of one instance (SpecGuard)
MaxTasks == 2       \* invocations of one asynchronous method (SpecSwap, SpecConfirm, SpecEnsure)

Null == 0
Uuids == 1..MaxUuid

\* ----------------------------------------------------------------- helpers
Range(s) == {s[k] : k \in DOMAIN s}

Min(a, b) == IF a < b THEN a ELSE b

\* Math.ceil(n / d) for n >= 0, d > 0
Ceil(n, d) == (n + d - 1) \div d

\* ------------------------------------------------------------ chat names
\* isCheckpointChat: chatName.includes('Checkpoint #')
isCheckpointChat(chatName) == Len(chatName) > 0 /\ "Checkpoint #" \in Range(chatName)

\* file_name.replace(/\.jsonl$/g, '')
StripJsonl(fileName) ==
    IF Len(fileName) > 0 /\ fileName[Len(fileName)] = ".jsonl"
    THEN SubSeq(fileName, 1, Len(fileName) - 1)
    ELSE fileName

\* The k-th file of the chat directory: file names are distinct.
FileName(k, checkpoint) ==
    <<"chat", ToString(k)>> \o (IF checkpoint THEN <<" - ", "Checkpoint #", "1">> ELSE <<>>)
        \o <<".jsonl">>

\* ------------------------------------------------------- console / progress
Diag(kind, uuid, name, other) == [kind |-> kind, uuid |-> uuid, name |-> name, other |-> other]

\* updateProgress(current, total, statusText): the call as the callback sees it
Prog(current, total) == [current |-> current, total |-> total]

CountKind(log, kind) == Cardinality({k \in DOMAIN log : log[k].kind = kind})

\* ------------------------------------------- StorageRebuilder: pure parts
\* The record pushed to branchDataList (character_id, branch_point and created_at
\* are carried through unread and are left out).
Branch(uuid, parentUuid, rootUuid, chatName) ==
    [uuid |-> uuid, parent_uuid |-> parentUuid, root_uuid |-> rootUuid, chat_name |-> chatName]

\* { ...branch, parent_uuid: null }
OrphanFix(branch) == [branch EXCEPT !.parent_uuid = Null]

\* IsOrphan looking up the record's root_uuid instead of its parent_uuid
IsOrphanByRoot(branch, names) == branch.root_uuid \notin DOMAIN names

\* IsOrphan looking up the record's own uuid instead of its parent's
IsOrphanOwnKey(branch, names) == branch.parent_uuid # Null /\ branch.uuid \notin DOMAIN names

\* branch.parent_uuid && !uuidToChatName.has(branch.parent_uuid)
IsOrphan(branch, names) == branch.parent_uuid # Null /\ branch.parent_uuid \notin DOMAIN names

\* validated.push(fixedBranch) or validated.push(branch), for the k-th branch
ValidateOne(branch, names) == IF IsOrphan(branch, names) THEN OrphanFix(branch) ELSE branch

\* a repair that writes parent_uuid = null into the orphaned record itself and
\* pushes that record: the caller's list shows the repair too
validateInPlace(branches, names) ==
    LET validated == [k \in DOMAIN branches |-> ValidateOne(branches[k], names)]
        orphans == SelectSeq(branches, LAMBDA branch : IsOrphan(branch, names))
        warned == [k \in DOMAIN orphans |->
                     Diag("orphan", orphans[k].parent_uuid, orphans[k].chat_name, <<>>)]
    IN [validated |-> validated,
        branches |-> validated,
        diag |-> IF Len(orphans) > 0
                 THEN Append(warned, Diag("fixed", Null, <<>>, <<>>))
                 ELSE <<>>]

\* validateAndFixBranches(branches, uuidToChatName): [validated, branches, diag].  The
\* loop pushes one record per branch, in order, and warns once per orphan, in order;
\* an orphan is pushed as a copy ({ ...branch, parent_uuid: null }), so the list
\* passed in, given back as branches, holds the records as they were.
validateAndFixBranches(branches, names) ==
    LET validated == [k \in DOMAIN branches |-> ValidateOne(branches[k], names)]
        orphans == SelectSeq(branches, LAMBDA branch : IsOrphan(branch, names))
        warned == [k \in DOMAIN orphans |->
                     Diag("orphan", orphans[k].parent_uuid, orphans[k].chat_name, <<>>)]
        orphanedCount == Len(orphans)
    IN [validated |-> validated,
        branches |-> branches,
        diag |-> IF orphanedCount > 0
                 THEN Append(warned, Diag("fixed", Null, <<>>, <<>>))
                 ELSE <<>>]

\* new Map(branches.map(b => [b.uuid, b])).get(uuid): a later entry replaces an
\* earlier one with the same key; 0 when the key is absent.
BranchMapIndex(branches, uuid) ==
    LET hits == {k \in DOMAIN branches : branches[k].uuid = uuid}
    IN IF hits = {} THEN 0 ELSE CHOOSE k \in hits : \A m \in hits : m <= k

\* visit pushing the record before it visits the parent
RECURSIVE visitPushFirst(_, _, _)
visitPushFirst(branches, st, uuid) ==
    IF uuid \in st.visited THEN st
    ELSE IF uuid \in st.temp
    THEN [st EXCEPT !.diag = Append(@, Diag("cycle", uuid, <<>>, <<>>))]
    ELSE IF BranchMapIndex(branches, uuid) = 0
    THEN [st EXCEPT !.diag = Append(@, Diag("notfound", uuid, <<>>, <<>>))]
    ELSE LET branch == branches[BranchMapIndex(branches, uuid)]
             marked == [st EXCEPT !.temp = @ \cup {uuid}, !.sorted = Append(@, branch)]
             after == IF branch.parent_uuid # Null
                      THEN visitPushFirst(branches, marked, branch.parent_uuid)
                      ELSE marked
         IN [after EXCEPT !.temp = @ \ {uuid}, !.visited = @ \cup {uuid}]

\* visit without the early return for a record already processed
RECURSIVE visitAgain(_, _, _)
visitAgain(branches, st, uuid) ==
    IF uuid \in st.temp
    THEN [st EXCEPT !.diag = Append(@, Diag("cycle", uuid, <<>>, <<>>))]
    ELSE IF BranchMapIndex(branches, uuid) = 0
    THEN [st EXCEPT !.diag = Append(@, Diag("notfound", uuid, <<>>, <<>>))]
    ELSE LET branch == branches[BranchMapIndex(branches, uuid)]
             marked == [st EXCEPT !.temp = @ \cup {uuid}]
             after == IF branch.parent_uuid # Null
                      THEN visitAgain(branches, marked, branch.parent_uuid)
                      ELSE marked
         IN [after EXCEPT !.temp = @ \ {uuid},
                          !.visited = @ \cup {uuid},
                          !.sorted = Append(@, branch)]

\* the visit closure of sortBranchesForRegistration; st = [visited, temp, sorted, diag]
RECURSIVE visit(_, _, _)
visit(branches, st, uuid) ==
    IF uuid \in st.visited THEN st
    ELSE IF uuid \in st.temp
    THEN [st EXCEPT !.diag = Append(@, Diag("cycle", uuid, <<>>, <<>>))]
    ELSE IF BranchMapIndex(branches, uuid) = 0
    THEN [st EXCEPT !.diag = Append(@, Diag("notfound", uuid, <<>>, <<>>))]
    ELSE LET branch == branches[BranchMapIndex(branches, uuid)]
             marked == [st EXCEPT !.temp = @ \cup {uuid}]
             after == IF branch.parent_uuid # Null
                      THEN visit(branches, marked, branch.parent_uuid)
                      ELSE marked
         IN [after EXCEPT !.temp = @ \ {uuid},
                          !.visited = @ \cup {uuid},
                          !.sorted = Append(@, branch)]

\* for (const branch of branches) visit(branch.uuid), over branches[lo..hi] in order.
\* The range is halved, and the state after the first half is compared with the
\* state before it only so that it is evaluated before the second half starts:
\* the evaluation then stays shallow on long lists.
RECURSIVE SortLoop(_, _, _, _)
SortLoop(branches, lo, hi, st) ==
    IF lo > hi THEN st
    ELSE IF lo = hi THEN visit(branches, st, branches[lo].uuid)
    ELSE LET mid == (lo + hi) \div 2
             half == SortLoop(branches, lo, mid, st)
         IN IF half = st
            THEN SortLoop(branches, mid + 1, hi, st)
            ELSE SortLoop(branches, mid + 1, hi, half)

\* sortBranchesForRegistration(branches): [sorted, diag]
sortBranchesForRegistration(branches) ==
    LET st == SortLoop(branches, 1, Len(branches),
                       [visited |-> {}, temp |-> {}, sorted |-> <<>>, diag |-> <<>>])
    IN [sorted |-> st.sorted, diag |-> st.diag]

\* ------------------------------------------------ the collaborators' data
BATCH_SIZE == 50

\* One chat file: its name in the directory listing and what /api/chats/get
\* answers for it: read = "err" (the request fails), "empty" (no entries), or
\* "ok" with the first entry's chat_metadata (Null: the field is missing).
Chat(k, checkpoint, read, uuid, parentUuid, rootUuid) ==
    [file_name |-> FileName(k, checkpoint), read |-> read,
     uuid |-> uuid, parent_uuid |-> parentUuid, root_uuid |-> rootUuid]

NoResult == [returned |-> FALSE, first |-> 0, second |-> 0, error |-> FALSE]

\* a result that never carries an error
ResultNoError(first, second, error) ==
    [returned |-> TRUE, first |-> first, second |-> second, error |-> FALSE]

\* { processedCount, skippedCount[, error] } or { successCount, errorCount[, error] }
Result(first, second, error) ==
    [returned |-> TRUE, first |-> first, second |-> second, error |-> error]

\* What registerBranchWithPlugin can do with one call (ChatTreeView.js): it returns
\* without a request when the extension is disabled or the plugin is not running,
\* and it catches every failure of the request: it never throws.
RegisterOutcomes ==
    CASE env.store = "up" -> {"accepted"}
      [] env.store = "down" -> {"rejected"}
      [] OTHER -> {"accepted", "rejected"}

\* The store after registerBranchWithPlugin(branchData) with the given outcome.
Registered(st, branchData, outcome) ==
    IF outcome = "accepted" THEN Append(st, branchData) ELSE st

\* -------------------------------------- StorageRebuilder.rebuildStorageFromChats
\* the read pass without its duplicate check
IsDuplicateNever(names, uuid) == FALSE

\* uuidToChatName.has(uuid)
IsDuplicate(names, uuid) == uuid \in DOMAIN names

\* uuidToChatName.set(uuid, chatName)
MapSet(names, uuid, chatName) == (uuid :> chatName) @@ names

\* One iteration of the read pass over chatData, after its updateProgress call:
\* acc = [list, names, skipped, diag].
ReadOne(acc, chatData) ==
    LET chatName == StripJsonl(chatData.file_name)
        skip(kind, uuid, other) ==
            [acc EXCEPT !.skipped = @ + 1,
                        !.diag = IF kind = "" THEN @ ELSE Append(@, Diag(kind, uuid, chatName, other))]
    IN IF isCheckpointChat(chatName) THEN skip("checkpoint", Null, <<>>)
       ELSE IF chatData.read = "err" THEN skip("readerror", Null, <<>>)
       ELSE IF chatData.read = "empty" THEN skip("", Null, <<>>)
       ELSE IF chatData.uuid = Null THEN skip("", Null, <<>>)
       ELSE IF IsDuplicate(acc.names, chatData.uuid)
            THEN skip("duplicate", chatData.uuid, acc.names[chatData.uuid])
       ELSE [acc EXCEPT
               !.names = MapSet(@, chatData.uuid, chatName),
               !.list = Append(@, Branch(chatData.uuid, chatData.parent_uuid,
                                         IF chatData.root_uuid # Null THEN chatData.root_uuid
                                         ELSE chatData.uuid,
                                         chatName))]

\* fetchAllChats, the empty-list return, and the progress calls before the read pass
RebuildFetch ==
    /\ run = "rebuild" /\ pc = "start"
    /\ \/ /\ env.fetchFails
          /\ progress' = Append(progress, Prog(0, 0))
          /\ result' = Result(processedCount, skippedCount, TRUE)
          /\ pc' = "done"
       \/ /\ ~env.fetchFails /\ Len(chats) = 0
          /\ progress' = Append(progress, Prog(0, 0))
          /\ result' = Result(0, 0, FALSE)
          /\ pc' = "done"
       \/ /\ ~env.fetchFails /\ Len(chats) > 0
          /\ progress' = progress \o <<Prog(0, 0), Prog(0, Len(chats)), Prog(0, Len(chats))>>
          /\ result' = result
          /\ pc' = "read"
    /\ i' = 0
    /\ UNCHANGED <<run, chats, env, batchIndex, branchDataList, uuidToChatName,
                   validatedBranches, sortedBranches, processedCount, skippedCount,
                   successCount, errorCount, diag, store, batches, pauses>>
    /\ UNCHANGED viewVars
    /\ UNCHANGED <<ops, ctlVars>>

\* one iteration of the first pass (for i < chats.length)
RebuildRead ==
    /\ run = "rebuild" /\ pc = "read" /\ i < Len(chats)
    /\ LET acc == ReadOne([list |-> branchDataList, names |-> uuidToChatName,
                           skipped |-> skippedCount, diag |-> diag], chats[i + 1])
       IN /\ branchDataList' = acc.list
          /\ uuidToChatName' = acc.names
          /\ skippedCount' = acc.skipped
          /\ diag' = acc.diag
    /\ progress' = Append(progress, Prog(i, Len(chats)))
    /\ i' = i + 1
    /\ pc' = IF i + 1 < Len(chats) THEN "read" ELSE "validate"
    /\ UNCHANGED <<run, chats, env, batchIndex, validatedBranches, sortedBranches,
                   processedCount, successCount, errorCount, store, batches, pauses, result>>
    /\ UNCHANGED viewVars
    /\ UNCHANGED <<ops, ctlVars>>

\* second pass: validateAndFixBranches between its two progress calls
RebuildValidate ==
    /\ run = "rebuild" /\ pc = "validate"
    /\ LET r == validateAndFixBranches(branchDataList, uuidToChatName)
       IN /\ validatedBranches' = r.validated
          /\ branchDataList' = r.branches
          /\ diag' = diag \o r.diag
          /\ progress' = progress \o <<Prog(0, Len(branchDataList)), Prog(0, Len(r.validated))>>
    /\ pc' = "sort"
    /\ UNCHANGED <<run, chats, env, i, batchIndex, uuidToChatName,
                   sortedBranches, processedCount, skippedCount, successCount, errorCount,
                   store, batches, pauses, result>>
    /\ UNCHANGED viewVars
    /\ UNCHANGED <<ops, ctlVars>>

\* sortBranchesForRegistration and the set-up of the batch loop
RebuildSort ==
    /\ run = "rebuild" /\ pc = "sort"
    /\ LET r == sortBranchesForRegistration(validatedBranches)
       IN /\ sortedBranches' = r.sorted
          /\ diag' = diag \o r.diag
    /\ batchIndex' = 0
    /\ pc' = "batch"
    /\ UNCHANGED <<run, chats, env, i, branchDataList, uuidToChatName, validatedBranches,
                   processedCount, skippedCount, successCount, errorCount, progress,
                   store, batches, pauses, result>>
    /\ UNCHANGED viewVars
    /\ UNCHANGED <<ops, ctlVars>>

\* ---- the batch loop, written the same way in both runs ----
\* Math.ceil(total / BATCH_SIZE)
TotalBatches(total) == Ceil(total, BATCH_SIZE)

\* every batch announced from index 0
StartIdxZero(b) == 0

\* startIdx = batchIndex * BATCH_SIZE
StartIdx(b) == b * BATCH_SIZE

\* Math.min(startIdx + BATCH_SIZE, total)
EndIdx(b, total) == Min(StartIdx(b) + BATCH_SIZE, total)

\* a pause after every batch, the last one included
PauseAlways(b, total) == TRUE

\* batchIndex < totalBatches - 1: a pause follows this batch
PauseFollows(b, total) == b < TotalBatches(total) - 1

\* an inner loop that leaves its batch after the first item
MoreItemsNever(idx, b, total) == FALSE

\* i++ ; i < batch.length: another item of batch b follows item idx
MoreItems(idx, b, total) == idx + 1 < EndIdx(b, total) - StartIdx(b)

\* an index that stays on the first item of the batch
globalIndexStuck(b, idx) == StartIdx(b)

\* const globalIndex = startIdx + i
globalIndex(b, idx) == StartIdx(b) + idx

\* an event of the log ops
Op(item, phase) == [item |-> item, phase |-> phase]

\* the head of one iteration of an item loop: the try block is entered, progress is
\* reported, and the item's operation is started; the loop is suspended on its await
ItemStarts(total) ==
    /\ progress' = Append(progress, Prog(globalIndex(batchIndex, i), total))
    /\ ops' = Append(ops, Op(globalIndex(batchIndex, i), "start"))
    /\ pc' = "await"

\* the rest of the iteration, once the awaited operation has settled
ItemSettles(total) ==
    /\ progress' = Append(progress, Prog(globalIndex(batchIndex, i) + 1, total))
    /\ ops' = Append(ops, Op(globalIndex(batchIndex, i), "end"))
    /\ i' = i + 1
    /\ pc' = IF MoreItems(i, batchIndex, total) THEN "item" ELSE "tail"

\* loop head: the next batch is sliced and announced, or the run returns
BatchHead(total, first, second) ==
    IF batchIndex < TotalBatches(total)
    THEN /\ progress' = Append(progress, Prog(StartIdx(batchIndex), total))
         /\ batches' = Append(batches, EndIdx(batchIndex, total) - StartIdx(batchIndex))
         /\ i' = 0
         /\ pc' = "item"
         /\ result' = result
    ELSE /\ result' = Result(first, second, FALSE)
         /\ pc' = "done"
         /\ UNCHANGED <<progress, batches, i>>

\* after the last item of a batch: announce the pause, or go on to the loop head
BatchTail(total) ==
    IF PauseFollows(batchIndex, total)
    THEN /\ progress' = Append(progress, Prog(EndIdx(batchIndex, total), total))
         /\ pc' = "pause"
         /\ batchIndex' = batchIndex
    ELSE /\ pc' = "batch"
         /\ batchIndex' = batchIndex + 1
         /\ progress' = progress

\* await new Promise(resolve => setTimeout(resolve, 500)) has resolved
PauseOver ==
    /\ pauses' = pauses + 1
    /\ batchIndex' = batchIndex + 1
    /\ pc' = "batch"

RebuildBatch ==
    /\ run = "rebuild" /\ pc = "batch"
    /\ BatchHead(Len(sortedBranches), processedCount, skippedCount)
    /\ UNCHANGED <<run, chats, env, batchIndex, branchDataList, uuidToChatName,
                   validatedBranches, sortedBranches, processedCount, skippedCount,
                   successCount, errorCount, diag, store, pauses>>
    /\ UNCHANGED viewVars
    /\ UNCHANGED <<ops, ctlVars>>

\* one iteration of the registration loop, up to its await
RebuildIssue ==
    /\ run = "rebuild" /\ pc = "item"
    /\ ItemStarts(Len(sortedBranches))
    /\ UNCHANGED <<run, chats, env, i, batchIndex, branchDataList, uuidToChatName,
                   validatedBranches, sortedBranches, processedCount, skippedCount,
                   successCount, errorCount, diag, store, batches, pauses, result>>
    /\ UNCHANGED viewVars
    /\ UNCHANGED ctlVars

\* registerBranchWithPlugin(branchData) has settled: the counters inside try/catch
\* and the progress call after it
RebuildRegister ==
    /\ run = "rebuild" /\ pc = "await"
    /\ LET total == Len(sortedBranches)
           branchData == sortedBranches[globalIndex(batchIndex, i) + 1]
       IN /\ \E outcome \in RegisterOutcomes :
                /\ store' = Registered(store, branchData, outcome)
                /\ IF outcome = "threw"
                   THEN /\ skippedCount' = skippedCount + 1
                        /\ processedCount' = processedCount
                        /\ diag' = Append(diag, Diag("registererror", branchData.uuid,
                                                      branchData.chat_name, <<>>))
                   ELSE /\ processedCount' = processedCount + 1
                        /\ UNCHANGED <<skippedCount, diag>>
          /\ ItemSettles(total)
    /\ UNCHANGED <<run, chats, env, batchIndex, branchDataList, uuidToChatName,
                   validatedBranches, sortedBranches, successCount, errorCount,
                   batches, pauses, result>>
    /\ UNCHANGED viewVars
    /\ UNCHANGED ctlVars

RebuildBatchTail ==
    /\ run = "rebuild" /\ pc = "tail"
    /\ BatchTail(Len(sortedBranches))
    /\ UNCHANGED <<run, chats, env, i, branchDataList, uuidToChatName, validatedBranches,
                   sortedBranches, processedCount, skippedCount, successCount, errorCount,
                   diag, store, batches, pauses, result>>
    /\ UNCHANGED viewVars
    /\ UNCHANGED <<ops, ctlVars>>

RebuildPause ==
    /\ run = "rebuild" /\ pc = "pause"
    /\ PauseOver
    /\ UNCHANGED <<run, chats, env, i, branchDataList, uuidToChatName, validatedBranches,
                   sortedBranches, processedCount, skippedCount, successCount, errorCount,
                   progress, diag, store, batches, result>>
    /\ UNCHANGED viewVars
    /\ UNCHANGED <<ops, ctlVars>>

\* ------------------------------------------------ ChatMigrator.migrateAllChats
\* chatNeedsMigration(character, chatName)
chatNeedsMigration(chatData) ==
    \/ chatData.read # "ok"
    \/ chatData.uuid = Null
    \/ chatData.root_uuid = Null

\* uuidv4(): an identifier no file carries yet
FreshUuid(files) ==
    1 + (CHOOSE m \in {0} \cup {files[k].uuid : k \in DOMAIN files} :
            \A k \in DOMAIN files : files[k].uuid <= m)

\* The first entry's metadata after the migrator filled in what was missing.
Migrated(chatData, files) ==
    LET uuid == IF chatData.uuid # Null THEN chatData.uuid ELSE FreshUuid(files)
    IN [chatData EXCEPT !.uuid = uuid,
                        !.root_uuid = IF @ # Null THEN @ ELSE uuid]

\* /api/chats/save answers ok or not
SaveOutcomes == IF env.store = "flaky" THEN {TRUE, FALSE} ELSE {TRUE}

MigrateFetch ==
    /\ run = "migrate" /\ pc = "start"
    /\ \/ /\ env.fetchFails
          /\ progress' = Append(progress, Prog(0, 0))
          /\ result' = Result(successCount, errorCount, TRUE)
          /\ pc' = "done"
       \/ /\ ~env.fetchFails /\ Len(chats) = 0
          /\ progress' = Append(progress, Prog(0, 0))
          /\ result' = Result(0, 0, FALSE)
          /\ pc' = "done"
       \/ /\ ~env.fetchFails /\ Len(chats) > 0
          /\ progress' = progress \o <<Prog(0, 0), Prog(0, Len(chats))>>
          /\ result' = result
          /\ pc' = "batch"
    /\ batchIndex' = 0
    /\ UNCHANGED <<run, chats, env, i, branchDataList, uuidToChatName, validatedBranches,
                   sortedBranches, processedCount, skippedCount, successCount, errorCount,
                   diag, store, batches, pauses>>
    /\ UNCHANGED viewVars
    /\ UNCHANGED <<ops, ctlVars>>

MigrateBatch ==
    /\ run = "migrate" /\ pc = "batch"
    /\ BatchHead(Len(chats), successCount, errorCount)
    /\ UNCHANGED <<run, chats, env, batchIndex, branchDataList, uuidToChatName,
                   validatedBranches, sortedBranches, processedCount, skippedCount,
                   successCount, errorCount, diag, store, pauses>>
    /\ UNCHANGED viewVars
    /\ UNCHANGED <<ops, ctlVars>>

\* one iteration of the migration loop, up to its first await
MigrateIssue ==
    /\ run = "migrate" /\ pc = "item"
    /\ ItemStarts(Len(chats))
    /\ UNCHANGED <<run, chats, env, i, batchIndex, branchDataList, uuidToChatName,
                   validatedBranches, sortedBranches, processedCount, skippedCount,
                   successCount, errorCount, diag, store, batches, pauses, result>>
    /\ UNCHANGED viewVars
    /\ UNCHANGED ctlVars

\* the awaited requests of the iteration have settled (chatNeedsMigration,
\* fetchFullChatData, migrateChatMetadata, registerBranchWithPlugin, in this order):
\* the counters inside try/catch and the progress call after it
MigrateItem ==
    /\ run = "migrate" /\ pc = "await"
    /\ LET total == Len(chats)
           item == globalIndex(batchIndex, i)
           chatData == chats[item + 1]
           chatName == StripJsonl(chatData.file_name)
           fixed == Migrated(chatData, chats)
           record(c) == Branch(c.uuid, c.parent_uuid, c.root_uuid, chatName)
       IN /\ IF chatNeedsMigration(chatData)
             THEN IF chatData.read = "err"
                  THEN /\ errorCount' = errorCount + 1
                       /\ diag' = Append(diag, Diag("migrateerror", Null, chatName, <<>>))
                       /\ UNCHANGED <<successCount, chats, store>>
                  ELSE IF chatData.read = "empty"
                  THEN /\ errorCount' = errorCount + 1
                       /\ diag' = Append(diag, Diag("nodata", Null, chatName, <<>>))
                       /\ UNCHANGED <<successCount, chats, store>>
                  ELSE \E saved \in SaveOutcomes :
                         IF saved
                         THEN /\ chats' = [chats EXCEPT ![item + 1] = fixed]
                              /\ \E outcome \in RegisterOutcomes :
                                    store' = Registered(store, record(fixed), outcome)
                              /\ successCount' = successCount + 1
                              /\ UNCHANGED <<errorCount, diag>>
                         ELSE /\ errorCount' = errorCount + 1
                              /\ UNCHANGED <<successCount, chats, store, diag>>
             ELSE /\ \E outcome \in RegisterOutcomes :
                        store' = Registered(store,
                                            record([chatData EXCEPT !.root_uuid =
                                                      IF @ # Null THEN @ ELSE chatData.uuid]),
                                            outcome)
                  /\ UNCHANGED <<successCount, errorCount, chats, diag>>
          /\ ItemSettles(total)
    /\ UNCHANGED <<run, env, batchIndex, branchDataList, uuidToChatName, validatedBranches,
                   sortedBranches, processedCount, skippedCount, batches, pauses, result>>
    /\ UNCHANGED viewVars
    /\ UNCHANGED ctlVars

MigrateBatchTail ==
    /\ run = "migrate" /\ pc = "tail"
    /\ BatchTail(Len(chats))
    /\ UNCHANGED <<run, chats, env, i, branchDataList, uuidToChatName, validatedBranches,
                   sortedBranches, processedCount, skippedCount, successCount, errorCount,
                   diag, store, batches, pauses, result>>
    /\ UNCHANGED viewVars
    /\ UNCHANGED <<ops, ctlVars>>

MigratePause ==
    /\ run = "migrate" /\ pc = "pause"
    /\ PauseOver
    /\ UNCHANGED <<run, chats, env, i, branchDataList, uuidToChatName, validatedBranches,
                   sortedBranches, processedCount, skippedCount, successCount, errorCount,
                   progress, diag, store, batches, result>>
    /\ UNCHANGED viewVars
    /\ UNCHANGED <<ops, ctlVars>>

\* ------------------------------------------------------------ ChatTreeView
\* String.prototype.toLowerCase, on the characters names are made of
LowerChar(c) == CASE c = "A" -> "a" [] c = "B" -> "b" [] OTHER -> c

toLowerCase(name) == [k \in DOMAIN name |-> LowerChar(name[k])]

\* String.prototype.trim
RECURSIVE TrimLeft(_)
TrimLeft(name) ==
    IF Len(name) > 0 /\ name[1] = " " THEN TrimLeft(Tail(name)) ELSE name

RECURSIVE TrimRight(_)
TrimRight(name) ==
    IF Len(name) > 0 /\ name[Len(name)] = " "
    THEN TrimRight(SubSeq(name, 1, Len(name) - 1)) ELSE name

trim(name) == TrimRight(TrimLeft(name))

\* a.includes(b)
includes(a, b) ==
    \E o \in 1..(Len(a) - Len(b) + 1) : SubSeq(a, o, o + Len(b) - 1) = b

\* name.toLowerCase().trim()
Fold(name) == trim(toLowerCase(name))

ExactMatch(nodeName, file) == nodeName = file

CaseInsensitiveMatch(nodeName, file) == Fold(nodeName) = Fold(file)

PartialMatch(nodeName, file) ==
    includes(Fold(nodeName), Fold(file)) \/ includes(Fold(file), Fold(nodeName))

\* ---- the Map nodeMap: a sequence of [key, node] in insertion order ----
MapHas(m, key) == \E k \in DOMAIN m : m[k].key = key

\* Map.get: the node (a position in nodes), Null when absent
MapGet(m, key) ==
    IF MapHas(m, key) THEN m[CHOOSE k \in DOMAIN m : m[k].key = key].node ELSE Null

\* Map.set: a present key keeps its place and takes the new value
NodeMapSet(m, key, node) ==
    IF MapHas(m, key)
    THEN [k \in DOMAIN m |-> IF m[k].key = key THEN [key |-> key, node |-> node] ELSE m[k]]
    ELSE Append(m, [key |-> key, node |-> node])

\* ---- buildNodeMapFromTree ----
\* treeData[k] = [uuid, chat_name, up]: the k-th node of the fetched tree in
\* pre-order, up = the position of the node whose children array holds it (0: top level).
\* processNode makes one internal node per fetched node.
InternalNode(tree, k) ==
    [id |-> tree[k].uuid, name |-> tree[k].chat_name, parent |-> tree[k].up,
     children |-> {c \in DOMAIN tree : tree[c].up = k}]

RECURSIVE ProcessNodes(_, _, _)
ProcessNodes(tree, k, m) ==
    IF k > Len(tree) THEN m
    ELSE ProcessNodes(tree, k + 1, NodeMapSet(m, tree[k].uuid, k))

\* treeArray.map(root => processNode(root)): the top-level nodes, in order
RECURSIVE TopLevel(_, _)
TopLevel(tree, k) ==
    IF k > Len(tree) THEN <<>>
    ELSE (IF tree[k].up = 0 THEN <<k>> ELSE <<>>) \o TopLevel(tree, k + 1)

\* roots.filter((root, index, self) => self.findIndex(r => r.id === root.id) === index)
RECURSIVE DedupeRoots(_, _, _)
DedupeRoots(tree, roots, k) ==
    IF k > Len(roots) THEN <<>>
    ELSE (IF \E j \in 1..(k - 1) : tree[roots[j]].uuid = tree[roots[k]].uuid
          THEN <<>> ELSE <<roots[k]>>) \o DedupeRoots(tree, roots, k + 1)

AllRootsOf(tree, ver) ==
    IF ver = "ChatTreeView.js" THEN DedupeRoots(tree, TopLevel(tree, 1), 1)
    ELSE TopLevel(tree, 1)

ViewBuild ==
    /\ vpc = "fetched"
    /\ nodes' = [k \in DOMAIN treeData |-> InternalNode(treeData, k)]
    /\ nodeMap' = ProcessNodes(treeData, 1, <<>>)
    /\ allTreeRoots' = AllRootsOf(treeData, version)
    /\ treeRoots' = allTreeRoots'
    /\ vpc' = "built"
    /\ UNCHANGED <<treeData, currentChatUUID, currentChatFile, currentNode, currentRootNode,
                   version>>
    /\ UNCHANGED runVars
    /\ UNCHANGED <<ops, ctlVars>>

\* ---- findCurrentNode ----
\* the test one loop of findCurrentNode applies to a node's name
NameTest(kind, nodeName, file) ==
    CASE kind = "name" -> ExactMatch(nodeName, file)
      [] kind = "case-insensitive" -> CaseInsensitiveMatch(nodeName, file)
      [] kind = "partial" -> PartialMatch(nodeName, file)
      [] OTHER -> CaseInsensitiveMatch(nodeName, file) \/ PartialMatch(nodeName, file)

\* for (const [uuid, node] of this.nodeMap): the first node in iteration order
\* whose name passes the test, Null when none does
FirstMatch(m, ns, kind, file) ==
    LET hits == {k \in DOMAIN m : NameTest(kind, ns[m[k].node].name, file)}
    IN IF hits = {} THEN Null
       ELSE m[CHOOSE k \in hits : \A j \in hits : k <= j].node

\* steps 2-4 of ChatTreeView.js: three loops, each over the whole map
NameSearch(m, ns, file) ==
    LET exact == FirstMatch(m, ns, "name", file)
        insensitive == FirstMatch(m, ns, "case-insensitive", file)
        partial == FirstMatch(m, ns, "partial", file)
    IN IF exact # Null THEN [node |-> exact, how |-> "name"]
       ELSE IF insensitive # Null THEN [node |-> insensitive, how |-> "case-insensitive"]
       ELSE IF partial # Null THEN [node |-> partial, how |-> "partial"]
       ELSE [node |-> Null, how |-> "none"]

\* the copy in StorageRebuilder.js: one loop tests both fuzzy matches on each node
NameSearchCopy(m, ns, file) ==
    LET exact == FirstMatch(m, ns, "name", file)
        fuzzy == FirstMatch(m, ns, "fuzzy", file)
    IN IF exact # Null THEN [node |-> exact, how |-> "name"]
       ELSE IF fuzzy # Null
       THEN [node |-> fuzzy,
             how |-> IF CaseInsensitiveMatch(ns[fuzzy].name, file)
                     THEN "case-insensitive" ELSE "partial"]
       ELSE [node |-> Null, how |-> "none"]

\* a lookup by uuid that never finds the node
nodeByUUIDSkipped(m, uuid) == Null

\* if (this.currentChatUUID) { const nodeByUUID = this.nodeMap.get(this.currentChatUUID) ...
nodeByUUID(m, uuid) == IF uuid # Null THEN MapGet(m, uuid) ELSE Null

\* a fallback that leaves the current node empty
firstNodeNone(m) == Null

\* if (this.nodeMap.size > 0) firstNode = this.nodeMap.values().next().value
firstNode(m) == IF Len(m) > 0 THEN m[1].node ELSE Null

\* findCurrentNode: [node, diag]
findCurrentNode(m, ns, uuid, file, ver) ==
    LET byUuid == nodeByUUID(m, uuid)
        missed == IF uuid # Null /\ byUuid = Null
                  THEN <<Diag("uuid-not-found", uuid, <<>>, <<>>)>> ELSE <<>>
        byName == IF ver = "ChatTreeView.js" THEN NameSearch(m, ns, file)
                  ELSE NameSearchCopy(m, ns, file)
    IN IF byUuid # Null
       THEN [node |-> byUuid, diag |-> <<Diag("found-by-uuid", uuid, ns[byUuid].name, <<>>)>>]
       ELSE IF byName.node # Null
       THEN [node |-> byName.node,
             diag |-> Append(missed, Diag(byName.how, Null, ns[byName.node].name, <<>>))]
       ELSE IF firstNode(m) # Null
       THEN [node |-> firstNode(m),
             diag |-> missed \o <<Diag("not-found", uuid, file, <<>>),
                                  Diag("fallback-first", Null, ns[firstNode(m)].name, <<>>)>>]
       ELSE [node |-> Null, diag |-> Append(missed, Diag("not-found", uuid, file, <<>>))]

ViewFind ==
    /\ vpc = "built"
    /\ LET r == findCurrentNode(nodeMap, nodes, currentChatUUID, currentChatFile, version)
       IN /\ currentNode' = r.node
          /\ diag' = diag \o r.diag
    /\ vpc' = "found"
    /\ UNCHANGED <<treeData, nodeMap, allTreeRoots, treeRoots, currentChatUUID,
                   currentChatFile, currentRootNode, nodes, version>>
    /\ UNCHANGED <<run, chats, env, pc, i, batchIndex, branchDataList, uuidToChatName,
                   validatedBranches, sortedBranches, processedCount, skippedCount,
                   successCount, errorCount, progress, store, batches, pauses, result>>
    /\ UNCHANGED <<ops, ctlVars>>

\* ---- isolateActiveTree ----
\* a climb that stops at the parent
ClimbOnce(ns, node) == IF ns[node].parent # Null THEN ns[node].parent ELSE node

\* let root = node; while (root.parent) root = root.parent
RECURSIVE Climb(_, _)
Climb(ns, node) == IF ns[node].parent # Null THEN Climb(ns, ns[node].parent) ELSE node

\* an isolation that keeps only the tree it shows
isolateDiscarding(ns, node, all, rootNode) ==
    IF node = Null
    THEN [treeRoots |-> all, currentRootNode |-> rootNode, allTreeRoots |-> all]
    ELSE [treeRoots |-> <<Climb(ns, node)>>, currentRootNode |-> Climb(ns, node),
          allTreeRoots |-> <<Climb(ns, node)>>]

\* isolateActiveTree on a view with the given nodes, currentNode, allTreeRoots and
\* currentRootNode: the three fields as it leaves them
isolateActiveTree(ns, node, all, rootNode) ==
    IF node = Null
    THEN [treeRoots |-> all, currentRootNode |-> rootNode, allTreeRoots |-> all]
    ELSE [treeRoots |-> <<Climb(ns, node)>>, currentRootNode |-> Climb(ns, node),
          allTreeRoots |-> all]

ViewIsolate ==
    /\ vpc = "found"
    /\ \E view \in {isolateActiveTree(nodes, currentNode, allTreeRoots, currentRootNode)} :
          /\ treeRoots' = view.treeRoots
          /\ currentRootNode' = view.currentRootNode
          /\ allTreeRoots' = view.allTreeRoots
    /\ vpc' = "isolated"
    /\ UNCHANGED <<treeData, nodeMap, currentChatUUID, currentChatFile,
                   currentNode, nodes, version>>
    /\ UNCHANGED runVars
    /\ UNCHANGED <<ops, ctlVars>>

\* ---- loadAndBuildTreeLegacy (the ChatTreeView kept in StorageRebuilder.js) ----
\* chat.file_name.replace('.jsonl', ''): the first occurrence is removed
LegacyName(fileName) ==
    LET hits == {k \in DOMAIN fileName : fileName[k] = ".jsonl"}
    IN IF hits = {} THEN fileName
       ELSE LET first == CHOOSE k \in hits : \A j \in hits : k <= j
            IN SubSeq(fileName, 1, first - 1) \o SubSeq(fileName, first + 1, Len(fileName))

\* hydrateChatMetadata: data[0]?.chat_metadata || {}, and {} when the request fails
Metadata(chat) ==
    IF chat.read = "ok" THEN [uuid |-> chat.uuid, parent_uuid |-> chat.parent_uuid]
    ELSE [uuid |-> Null, parent_uuid |-> Null]

\* c.metadata.uuid || `legacy_${c.cleanName}`: file k has a name of its own, and so
\* has its legacy identifier, written -k
LegacyUuid(cs, k) == IF Metadata(cs[k]).uuid # Null THEN Metadata(cs[k]).uuid ELSE 0 - k

\* pass 1: this.nodeMap.set(uuid, node) for every chat, in order
RECURSIVE LegacyMap(_, _, _)
LegacyMap(cs, k, m) ==
    IF k > Len(cs) THEN m
    ELSE LegacyMap(cs, k + 1, NodeMapSet(m, LegacyUuid(cs, k), k))

\* pass 2, for the node made for chat k: the node its parent field is set to.  Only
\* the nodes the map still holds are linked; the others keep parent: null.
LegacyParent(cs, m, k) ==
    IF /\ MapGet(m, LegacyUuid(cs, k)) = k
       /\ Metadata(cs[k]).parent_uuid # Null
       /\ MapHas(m, Metadata(cs[k]).parent_uuid)
    THEN MapGet(m, Metadata(cs[k]).parent_uuid)
    ELSE Null

\* the node objects after both passes, by the position of their chat
LegacyGraph(cs, m) ==
    [k \in DOMAIN cs |->
        [id |-> LegacyUuid(cs, k), name |-> LegacyName(cs[k].file_name),
         parent |-> LegacyParent(cs, m, k),
         children |-> {c \in DOMAIN cs : LegacyParent(cs, m, c) = k}]]

\* roots.push(node) for the nodes of the map that were not linked, in map order
LegacyRoots(cs, m) ==
    SelectSeq([j \in DOMAIN m |-> m[j].node], LAMBDA node : LegacyParent(cs, m, node) = Null)

\* nodesByName.get(this.currentChatFile): the last node set under that name
nodesByName(cs, file) ==
    LET hits == {k \in DOMAIN cs : LegacyName(cs[k].file_name) = file}
    IN IF hits = {} THEN Null ELSE CHOOSE k \in hits : \A j \in hits : j <= k

\* buildGraphLegacy(enrichedChats), then isolateActiveTree up to its loop: without a
\* current node it shows this.allTreeRoots and returns, and so does expandActivePath
LegacyBuild ==
    /\ vpc = "legacy"
    /\ \E m \in {LegacyMap(chats, 1, <<>>)}, found \in {nodesByName(chats, currentChatFile)} :
          /\ nodeMap' = m
          /\ nodes' = LegacyGraph(chats, m)
          /\ currentNode' = found
          /\ walk' = found
          /\ tests' = tests
          /\ IF found = Null
             THEN /\ treeRoots' = allTreeRoots
                  /\ vpc' = "expanded"
             ELSE /\ treeRoots' = LegacyRoots(chats, m)
                  /\ vpc' = "climbing"
    /\ UNCHANGED <<treeData, allTreeRoots, currentChatUUID, currentChatFile, currentRootNode,
                   version>>
    /\ UNCHANGED <<runVars, ops, renameVars, guardVars, taskVars>>

\* one test of `while (root.parent)` in isolateActiveTree: the body root = root.parent,
\* or the two assignments after the loop and the entry of expandActivePath
WalkToRoot ==
    /\ vpc = "climbing"
    /\ tests' = (tests + 1) % 2
    /\ IF nodes[walk].parent # Null
       THEN /\ walk' = nodes[walk].parent
            /\ UNCHANGED <<currentRootNode, treeRoots, vpc>>
       ELSE /\ currentRootNode' = walk
            /\ treeRoots' = <<walk>>
            /\ walk' = currentNode
            /\ vpc' = "expanding"
    /\ UNCHANGED <<treeData, nodeMap, allTreeRoots, currentChatUUID, currentChatFile,
                   currentNode, nodes, version>>
    /\ UNCHANGED <<runVars, ops, renameVars, guardVars, taskVars>>

\* one test of `while (curr)` in expandActivePath: curr = curr.parent, or the return.
\* expandedUUIDs, which only the renderer reads, is left out.
ExpandPath ==
    /\ vpc = "expanding"
    /\ tests' = (tests + 1) % 2
    /\ IF walk # Null
       THEN /\ walk' = nodes[walk].parent
            /\ vpc' = vpc
       ELSE /\ vpc' = "expanded"
            /\ walk' = walk
    /\ UNCHANGED <<treeData, nodeMap, allTreeRoots, treeRoots, currentChatUUID,
                   currentChatFile, currentNode, currentRootNode, nodes, version>>
    /\ UNCHANGED <<runVars, ops, renameVars, guardVars, taskVars>>

\* ------------------------------------------------------- ChatRenameHandler
\* this.INVALID_CHARS = /[<>:"/\\|?*]/g
ForbiddenChars == {"<", ">", ":", "\"", "/", "\\", "|", "?", "*"}

\* this.MAX_FILENAME_LENGTH
MAX_FILENAME_LENGTH == 255

\* toUpperCase on the letters of the reserved names: how the i flag of
\* RESERVED_NAMES compares letters
UpperChar(c) ==
    CASE c = "a" -> "A" [] c = "c" -> "C" [] c = "l" -> "L" [] c = "m" -> "M"
      [] c = "n" -> "N" [] c = "o" -> "O" [] c = "p" -> "P" [] c = "r" -> "R"
      [] c = "t" -> "T" [] c = "u" -> "U" [] c = "x" -> "X" [] OTHER -> c

toUpperCase(name) == [k \in DOMAIN name |-> UpperChar(name[k])]

\* this.RESERVED_NAMES = /^(CON|PRN|AUX|NUL|COM[1-9]|LPT[1-9])$/i
RESERVED_NAMES ==
    {<<"C", "O", "N">>, <<"P", "R", "N">>, <<"A", "U", "X">>, <<"N", "U", "L">>}
    \cup {<<"C", "O", "M", d>> : d \in {"1", "2", "3", "4", "5", "6", "7", "8", "9"}}
    \cup {<<"L", "P", "T", d>> : d \in {"1", "2", "3", "4", "5", "6", "7", "8", "9"}}

\* RegExp.prototype.test of a regular expression with the g flag: the search starts
\* at lastIndex; a match leaves lastIndex just after it, a failure resets it to 0
RegexTest(li, str) ==
    LET hits == {j \in (li + 1)..Len(str) : str[j] \in ForbiddenChars}
    IN IF hits = {} THEN [found |-> FALSE, lastIndex |-> 0]
       ELSE [found |-> TRUE, lastIndex |-> CHOOSE j \in hits : \A h \in hits : j <= h]

\* a check that looks at the node and not below it
checkNodeOnly(ns, node, newName, excludeUuid) ==
    ns[node].id # excludeUuid /\ ns[node].name = newName

RECURSIVE checkNodeForDuplicate(_, _, _, _)
checkNodeForDuplicate(ns, node, newName, excludeUuid) ==
    \/ ns[node].id # excludeUuid /\ ns[node].name = newName
    \/ \E child \in ns[node].children : checkNodeForDuplicate(ns, child, newName, excludeUuid)

hasDuplicateName(ns, newName, roots, excludeUuid) ==
    \E r \in DOMAIN roots : checkNodeForDuplicate(ns, roots[r], newName, excludeUuid)

\* validateName(newName, treeRoots, excludeUuid) on a handler whose INVALID_CHARS has
\* the given lastIndex: [valid, error, lastIndex]
validateName(ns, newName, roots, excludeUuid, li) ==
    LET trimmedName == trim(newName)
        invalid == RegexTest(li, trimmedName)
        answer(valid, error, index) == [valid |-> valid, error |-> error, lastIndex |-> index]
    IN IF Len(newName) = 0 \/ Len(trimmedName) = 0 THEN answer(FALSE, "empty", li)
       ELSE IF Len(trimmedName) > MAX_FILENAME_LENGTH THEN answer(FALSE, "too long", li)
       ELSE IF invalid.found THEN answer(FALSE, "invalid characters", invalid.lastIndex)
       ELSE IF toUpperCase(trimmedName) \in RESERVED_NAMES
            THEN answer(FALSE, "reserved", invalid.lastIndex)
       ELSE IF hasDuplicateName(ns, trimmedName, roots, excludeUuid)
            THEN answer(FALSE, "exists", invalid.lastIndex)
       ELSE answer(TRUE, "", invalid.lastIndex)

\* the record kept of a validateName call
Validation(newName, roots, excludeUuid, answer) ==
    [made |-> TRUE, newName |-> newName, roots |-> roots, excludeUuid |-> excludeUuid,
     valid |-> answer.valid, error |-> answer.error]

\* the names a caller proposes
Repeat(c, n) == [k \in 1..n |-> c]

RenameInputs ==
    {<<>>, <<" ">>, <<"a">>, <<" ", "a", " ">>, <<"b">>, <<"<", ">">>,
     <<"C", "O", "N">>, <<"c", "o", "n">>, <<"C", "O", "M", "1">>, <<"l", "p", "t", "9">>,
     <<"C", "O", "M", "0">>, <<"C", "O", "N", "a">>,
     Repeat("a", MAX_FILENAME_LENGTH), Repeat("a", MAX_FILENAME_LENGTH + 1),
     Repeat("a", MAX_FILENAME_LENGTH) \o <<" ">>}
    \cup {<<c>> : c \in ForbiddenChars}

\* one validateName call on the handler, with any arguments
ValidateName ==
    /\ vpc = "built" /\ calls < MaxCalls
    /\ \E newName \in RenameInputs, excludeUuid \in 0..MaxForest,
          roots \in {allTreeRoots} \cup {<<allTreeRoots[r]>> : r \in DOMAIN allTreeRoots} :
          LET answer == validateName(nodes, newName, roots, excludeUuid, lastIndex)
          IN /\ validation' = Validation(newName, roots, excludeUuid, answer)
             /\ lastIndex' = answer.lastIndex
    /\ calls' = calls + 1
    /\ UNCHANGED <<isRenaming, renameNode, renamed, requests, characterChat>>
    /\ UNCHANGED <<runVars, viewVars, ops, guardVars, walkVars, taskVars>>

\* ---- ChatTreeView: startRename, confirmRename, cancelRename ----
\* the nodes of the subtree of node: what render() draws below a root
RECURSIVE Subtree(_, _)
Subtree(ns, node) == {node} \cup UNION {Subtree(ns, child) : child \in ns[node].children}

\* the names typed into the rename input
TypedNames == {<<"a">>, <<"b">>, <<"a", " ">>, <<"<">>}

\* startRename(uuid), from the context menu of a node that is drawn
StartRename ==
    /\ vpc = "isolated"
    /\ \E r \in DOMAIN treeRoots : \E shown \in Subtree(nodes, treeRoots[r]) :
          LET node == MapGet(nodeMap, nodes[shown].id)
          IN /\ node # Null
             /\ isRenaming' = TRUE
             /\ renameNode' = node
    /\ UNCHANGED <<lastIndex, validation, calls, renamed, requests, characterChat>>
    /\ UNCHANGED <<runVars, viewVars, ops, guardVars, walkVars, taskVars>>

CancelRename ==
    /\ vpc = "isolated" /\ isRenaming
    /\ isRenaming' = FALSE
    /\ renameNode' = Null
    /\ UNCHANGED <<lastIndex, validation, calls, renamed, requests, characterChat>>
    /\ UNCHANGED <<runVars, viewVars, ops, guardVars, walkVars, taskVars>>

\* the tree the plugin returns once PATCH /branch/uuid { chat_name } was accepted
Patched(tree, uuid, cleanName) ==
    [k \in DOMAIN tree |->
        IF tree[k].uuid = uuid THEN [tree[k] EXCEPT !.chat_name = cleanName] ELSE tree[k]]

\* a request of performRename: PATCH /branch/uuid (updateBranchInPlugin) or
\* POST /api/chats/rename (renameChatFile)
Request(kind, uuid, name) == [kind |-> kind, uuid |-> uuid, name |-> name]

\* what performRename can do: the PATCH to the plugin fails; the PATCH succeeds and
\* the rename of the chat file fails; both succeed
RenameOutcomes == {"plugin failed", "file failed", "renamed"}

\* loadAndBuildTree on the tree fetched after a rename: buildNodeMapFromTree,
\* findCurrentNode and isolateActiveTree
Reload(tree, file) ==
    \E ns \in {[k \in DOMAIN tree |-> InternalNode(tree, k)]},
       m \in {ProcessNodes(tree, 1, <<>>)} :
       \E found \in {findCurrentNode(m, ns, currentChatUUID, file, version)} :
          /\ treeData' = tree
          /\ nodes' = ns
          /\ nodeMap' = m
          /\ allTreeRoots' = AllRootsOf(tree, version)
          /\ currentNode' = found.node
          /\ diag' = diag \o found.diag
          /\ IF found.node = Null
             THEN /\ treeRoots' = AllRootsOf(tree, version)
                  /\ currentRootNode' = currentRootNode
             ELSE /\ currentRootNode' = Climb(ns, found.node)
                  /\ treeRoots' = <<Climb(ns, found.node)>>

\* a confirmRename that goes on whatever validateName answered
RejectedNever(answer) == FALSE

\* if (!validation.valid) { toastr.error(...); return; }
Rejected(answer) == ~answer.valid

\* confirmRename(uuid, newName) for the node being renamed
ConfirmRename ==
    /\ vpc = "isolated" /\ isRenaming /\ renameNode # Null /\ calls < MaxCalls
    /\ \E newName \in TypedNames, outcome \in RenameOutcomes,
          uuid \in {nodes[renameNode].id} :
       \E answer \in {validateName(nodes, newName, treeRoots, uuid, lastIndex)} :
          IF newName = nodes[MapGet(nodeMap, uuid)].name
          THEN /\ isRenaming' = FALSE /\ renameNode' = Null
               /\ UNCHANGED <<lastIndex, validation, calls, renamed, requests,
                              characterChat, viewVars, diag>>
          ELSE /\ validation' = Validation(newName, treeRoots, uuid, answer)
               /\ lastIndex' = answer.lastIndex
               /\ calls' = calls + 1
               /\ IF Rejected(answer)
                  THEN UNCHANGED <<isRenaming, renameNode, renamed, requests,
                                   characterChat, viewVars, diag>>
                  ELSE IF outcome = "plugin failed"
                  THEN /\ requests' = Append(requests, Request("patch", uuid, newName))
                       /\ UNCHANGED <<isRenaming, renameNode, renamed, characterChat,
                                      viewVars, diag>>
                  ELSE IF outcome = "file failed"
                  THEN /\ requests' = requests \o <<Request("patch", uuid, newName),
                                                     Request("rename", uuid, newName)>>
                       /\ renamed' = Append(renamed, [uuid |-> uuid, name |-> newName])
                       /\ UNCHANGED <<isRenaming, renameNode, characterChat, viewVars, diag>>
                  ELSE /\ requests' = requests \o <<Request("patch", uuid, newName),
                                                     Request("rename", uuid, newName)>>
                       /\ renamed' = Append(renamed, [uuid |-> uuid, name |-> newName])
                       /\ isRenaming' = FALSE /\ renameNode' = Null
                       /\ currentChatFile' = IF currentChatUUID = uuid THEN newName
                                             ELSE currentChatFile
                       /\ characterChat' = IF currentChatUUID = uuid THEN newName
                                           ELSE characterChat
                       /\ Reload(Patched(treeData, uuid, StripJsonl(newName)),
                                 currentChatFile')
                       /\ UNCHANGED <<currentChatUUID, version, vpc>>
    /\ UNCHANGED <<run, chats, env, pc, i, batchIndex, branchDataList, uuidToChatName,
                   validatedBranches, sortedBranches, processedCount, skippedCount,
                   successCount, errorCount, progress, store, batches, pauses, result>>
    /\ UNCHANGED <<ops, guardVars, walkVars, taskVars>>

\* ------------------- showRebuildDialog / startRebuild (showMigrationDialog / startMigration)
\* One StorageRebuilder (run = "rebuild") or one ChatMigrator (run = "migrate").
\* handlers[c] is where invocation c stands:
\*   "idle"      not invoked yet
\*   "checking"  showRebuildDialog awaits checkStorageExists
\*   "confirm"   the dialog awaits Popup.show.confirm
\*   "running"   its start method awaits the progress popup and the run it started
\*   "closing"   the run has returned, the start method has not resumed yet
\*   "summary"   the start method awaits the completion popup
\*   "thrown"    the promise of the run has rejected, the start method has not resumed yet
\*   "warned" | "declined" | "refused" | "done" | "failed"   returned
Clicks == 1..MaxClicks

\* a guard that never sees a run in progress
NeverRunning(flag) == FALSE

\* if (this.isRebuilding) return;
AlreadyRunning(flag) == flag

\* startRebuild / startMigration up to its first await: the guard, the flag, and the
\* call of rebuildStorageFromChats / migrateAllChats
startRebuild(c) ==
    IF AlreadyRunning(isRebuilding)
    THEN /\ handlers' = [handlers EXCEPT ![c] = "refused"]
         /\ UNCHANGED <<isRebuilding, inFlight>>
    ELSE /\ isRebuilding' = TRUE
         /\ inFlight' = inFlight + 1
         /\ handlers' = [handlers EXCEPT ![c] = "running"]

\* showRebuildDialog / showMigrationDialog up to its first await
ShowDialog(c) ==
    /\ handlers[c] = "idle"
    /\ handlers' = [handlers EXCEPT ![c] = IF AlreadyRunning(isRebuilding) THEN "warned"
                                          ELSE IF run = "rebuild" THEN "checking"
                                          ELSE "confirm"]
    /\ UNCHANGED <<isRebuilding, inFlight>>
    /\ UNCHANGED <<runVars, viewVars, ops, renameVars, walkVars, taskVars>>

\* checkStorageExists has answered: the confirmation popup is shown
StorageChecked(c) ==
    /\ handlers[c] = "checking"
    /\ handlers' = [handlers EXCEPT ![c] = "confirm"]
    /\ UNCHANGED <<isRebuilding, inFlight>>
    /\ UNCHANGED <<runVars, viewVars, ops, renameVars, walkVars, taskVars>>

\* the confirmation popup is answered: if (!confirmed) return; await this.startRebuild()
DialogAnswered(c) ==
    /\ handlers[c] = "confirm"
    /\ \E confirmed \in BOOLEAN :
          IF confirmed THEN startRebuild(c)
          ELSE /\ handlers' = [handlers EXCEPT ![c] = "declined"]
               /\ UNCHANGED <<isRebuilding, inFlight>>
    /\ UNCHANGED <<runVars, viewVars, ops, renameVars, walkVars, taskVars>>

\* startRebuild / startMigration called without the dialog
StartDirect(c) ==
    /\ handlers[c] = "idle"
    /\ startRebuild(c)
    /\ UNCHANGED <<runVars, viewVars, ops, renameVars, walkVars, taskVars>>

\* rebuildStorageFromChats / migrateAllChats of invocation c returns its result
RunReturns(c) ==
    /\ handlers[c] = "running"
    /\ inFlight' = inFlight - 1
    /\ handlers' = [handlers EXCEPT ![c] = "closing"]
    /\ UNCHANGED isRebuilding
    /\ UNCHANGED <<runVars, viewVars, ops, renameVars, walkVars, taskVars>>

\* a start method that resumes and leaves the flag set
StartResumesKeepsFlag(c) ==
    /\ handlers[c] = "closing"
    /\ isRebuilding' = isRebuilding
    /\ handlers' = [handlers EXCEPT ![c] = "summary"]
    /\ UNCHANGED inFlight
    /\ UNCHANGED <<runVars, viewVars, ops, renameVars, walkVars, taskVars>>

\* the start method resumes after await progressPopup.show() and await rebuildPromise:
\* this.isRebuilding = false, then the completion popup
StartResumes(c) ==
    /\ handlers[c] = "closing"
    /\ isRebuilding' = FALSE
    /\ handlers' = [handlers EXCEPT ![c] = "summary"]
    /\ UNCHANGED inFlight
    /\ UNCHANGED <<runVars, viewVars, ops, renameVars, walkVars, taskVars>>

\* the completion popup is closed
SummaryClosed(c) ==
    /\ handlers[c] = "summary"
    /\ handlers' = [handlers EXCEPT ![c] = "done"]
    /\ UNCHANGED <<isRebuilding, inFlight>>
    /\ UNCHANGED <<runVars, viewVars, ops, renameVars, walkVars, taskVars>>

\* the promise of the run rejects instead (rebuildStorageFromChats and migrateAllChats
\* catch their own failures, so only the .then callback that closes the popup can throw)
RunThrows(c) ==
    /\ handlers[c] = "running"
    /\ inFlight' = inFlight - 1
    /\ handlers' = [handlers EXCEPT ![c] = "thrown"]
    /\ UNCHANGED isRebuilding
    /\ UNCHANGED <<runVars, viewVars, ops, renameVars, walkVars, taskVars>>

\* the start method resumes in its catch block: this.isRebuilding = false, then the
\* failure popup, after which it returns
StartCatches(c) ==
    /\ handlers[c] = "thrown"
    /\ isRebuilding' = FALSE
    /\ handlers' = [handlers EXCEPT ![c] = "failed"]
    /\ UNCHANGED inFlight
    /\ UNCHANGED <<runVars, viewVars, ops, renameVars, walkVars, taskVars>>

\* ------------------------------------------ ChatTreeView.swapChat and its callers
\* tasks[t] is where invocation t stands:
\*   "idle"      not invoked yet
\*   "opening"   swapChat awaits openCharacterChat
\*   "fetching"  loadAndBuildTree, called by swapChat, awaits fetchTreeFromPlugin
\*   "ignored" | "same" | "failed" | "unloaded" | "done"   returned
Tasks == 1..MaxTasks

IdleTask == [pc |-> "idle", name |-> <<>>, uuid |-> Null]

Task(pc_, name, uuid) == [pc |-> pc_, name |-> name, uuid |-> uuid]

\* swapChat(chatName) up to its first await: the flag, and the call of openCharacterChat
swapChat(t, chatName) ==
    /\ isSwappingChat' = TRUE
    /\ tasks' = [tasks EXCEPT ![t] = Task("opening", chatName, Null)]

\* a double click on a node that is drawn
DblClick(t) ==
    /\ vpc = "isolated" /\ tasks[t].pc = "idle"
    /\ \E r \in DOMAIN treeRoots : \E shown \in Subtree(nodes, treeRoots[r]) :
          IF isSwappingChat
          THEN /\ tasks' = [tasks EXCEPT ![t] = Task("ignored", nodes[shown].name, Null)]
               /\ UNCHANGED isSwappingChat
          ELSE IF nodes[shown].name = currentChatFile
          THEN /\ tasks' = [tasks EXCEPT ![t] = Task("same", nodes[shown].name, Null)]
               /\ UNCHANGED isSwappingChat
          ELSE swapChat(t, nodes[shown].name)
    /\ UNCHANGED <<runVars, viewVars, ops, renameVars, guardVars, walkVars, chat_metadata>>

\* handleRootChange(rootUUID), from the dropdown, which populateRootDropdown shows when
\* there is more than one root and which stays in place while the tree is loading
RootChange(t) ==
    /\ vpc \in {"isolated", "loading"} /\ tasks[t].pc = "idle"
    /\ Len(allTreeRoots) > 1
    /\ \E r \in DOMAIN allTreeRoots :
          IF currentRootNode # Null /\ nodes[allTreeRoots[r]].id = nodes[currentRootNode].id
          THEN /\ tasks' = [tasks EXCEPT ![t] = Task("same", nodes[allTreeRoots[r]].name, Null)]
               /\ UNCHANGED <<isSwappingChat, currentRootNode>>
          ELSE /\ currentRootNode' = allTreeRoots[r]
               /\ swapChat(t, nodes[allTreeRoots[r]].name)
    /\ UNCHANGED <<treeData, nodeMap, allTreeRoots, treeRoots, currentChatUUID,
                   currentChatFile, currentNode, nodes, version, vpc>>
    /\ UNCHANGED <<runVars, ops, renameVars, guardVars, walkVars, chat_metadata>>

\* openCharacterChat settles.  Resolved: this.currentChatFile = String(chatName), and
\* loadAndBuildTree replaces the drawn tree by the spinner and awaits the fetch.
\* Rejected: the catch block, then finally.
SwapOpened(t) ==
    /\ tasks[t].pc = "opening"
    /\ \E opened \in BOOLEAN :
          IF opened
          THEN /\ characterChat' = tasks[t].name
               /\ currentChatFile' = tasks[t].name
               /\ vpc' = "loading"
               /\ tasks' = [tasks EXCEPT ![t].pc = "fetching"]
               /\ UNCHANGED isSwappingChat
          ELSE /\ tasks' = [tasks EXCEPT ![t].pc = "failed"]
               /\ isSwappingChat' = FALSE
               /\ UNCHANGED <<characterChat, currentChatFile, vpc>>
    /\ UNCHANGED <<treeData, nodeMap, allTreeRoots, treeRoots, currentChatUUID,
                   currentNode, currentRootNode, nodes, version>>
    /\ UNCHANGED <<lastIndex, validation, calls, isRenaming, renameNode, renamed, requests>>
    /\ UNCHANGED <<runVars, ops, guardVars, walkVars, chat_metadata>>

\* fetchTreeFromPlugin settles.  Resolved: the tree is built and drawn.  Rejected:
\* loadAndBuildTree catches the error and the spinner stays.  Either way swapChat
\* resumes and, in finally, clears the flag.
SwapLoaded(t) ==
    /\ tasks[t].pc = "fetching"
    /\ \E fetched \in BOOLEAN :
          IF fetched
          THEN /\ Reload(treeData, currentChatFile)
               /\ vpc' = "isolated"
               /\ tasks' = [tasks EXCEPT ![t].pc = "done"]
          ELSE /\ tasks' = [tasks EXCEPT ![t].pc = "unloaded"]
               /\ UNCHANGED <<treeData, nodeMap, allTreeRoots, treeRoots, currentNode,
                              currentRootNode, nodes, vpc, diag>>
    /\ isSwappingChat' = FALSE
    /\ UNCHANGED <<currentChatUUID, currentChatFile, version>>
    /\ UNCHANGED <<run, chats, env, pc, i, batchIndex, branchDataList, uuidToChatName,
                   validatedBranches, sortedBranches, processedCount, skippedCount,
                   successCount, errorCount, progress, store, batches, pauses, result>>
    /\ UNCHANGED <<ops, renameVars, guardVars, walkVars, chat_metadata>>

\* ------------------------------- ChatTreeView.confirmRename, one await at a time
\* tasks[t] is where invocation t of confirmRename stands:
\*   "patching"  performRename awaits updateBranchInPlugin (PATCH /branch/uuid)
\*   "renaming"  performRename awaits renameChatFile (POST /api/chats/rename)
\*   "same" | "rejected" | "failed" | "done"   returned
\* confirmRename(uuid, newName) from the confirm button of the rename input, up to its
\* first await: the guards, validateName, and the PATCH that performRename issues
ConfirmBegins(t) ==
    /\ vpc = "isolated" /\ isRenaming /\ renameNode # Null /\ calls < MaxCalls
    /\ tasks[t].pc = "idle"
    /\ \E newName \in TypedNames, uuid \in {nodes[renameNode].id} :
       \E answer \in {validateName(nodes, newName, treeRoots, uuid, lastIndex)} :
          IF newName = nodes[MapGet(nodeMap, uuid)].name
          THEN /\ isRenaming' = FALSE /\ renameNode' = Null
               /\ tasks' = [tasks EXCEPT ![t] = Task("same", newName, uuid)]
               /\ UNCHANGED <<lastIndex, validation, calls, requests>>
          ELSE /\ validation' = Validation(newName, treeRoots, uuid, answer)
               /\ lastIndex' = answer.lastIndex
               /\ calls' = calls + 1
               /\ UNCHANGED <<isRenaming, renameNode>>
               /\ IF Rejected(answer)
                  THEN /\ tasks' = [tasks EXCEPT ![t] = Task("rejected", newName, uuid)]
                       /\ UNCHANGED requests
                  ELSE /\ tasks' = [tasks EXCEPT ![t] = Task("patching", newName, uuid)]
                       /\ requests' = Append(requests, Request("patch", uuid, newName))
    /\ UNCHANGED <<renamed, characterChat, isSwappingChat, chat_metadata>>
    /\ UNCHANGED <<runVars, viewVars, ops, guardVars, walkVars>>

\* the PATCH settles.  Accepted: the store holds the new name and performRename calls
\* renameChatFile.  Refused: performRename throws and confirmRename returns from its catch.
ConfirmPatched(t) ==
    /\ tasks[t].pc = "patching"
    /\ \E accepted \in BOOLEAN :
          IF accepted
          THEN /\ renamed' = Append(renamed, [uuid |-> tasks[t].uuid, name |-> tasks[t].name])
               /\ requests' = Append(requests, Request("rename", tasks[t].uuid, tasks[t].name))
               /\ tasks' = [tasks EXCEPT ![t].pc = "renaming"]
          ELSE /\ tasks' = [tasks EXCEPT ![t].pc = "failed"]
               /\ UNCHANGED <<renamed, requests>>
    /\ UNCHANGED <<lastIndex, validation, calls, isRenaming, renameNode, characterChat,
                   isSwappingChat, chat_metadata>>
    /\ UNCHANGED <<runVars, viewVars, ops, guardVars, walkVars>>

\* the rename of the file settles.  Done: confirmRename updates the view and loads the
\* tree again.  Refused: performRename throws and confirmRename returns from its catch.
ConfirmSettles(t) ==
    /\ tasks[t].pc = "renaming"
    /\ \E done \in BOOLEAN :
          IF done
          THEN /\ isRenaming' = FALSE /\ renameNode' = Null
               /\ currentChatFile' = IF currentChatUUID = tasks[t].uuid THEN tasks[t].name
                                     ELSE currentChatFile
               /\ characterChat' = IF currentChatUUID = tasks[t].uuid THEN tasks[t].name
                                   ELSE characterChat
               /\ Reload(Patched(treeData, tasks[t].uuid, StripJsonl(tasks[t].name)),
                         currentChatFile')
               /\ tasks' = [tasks EXCEPT ![t].pc = "done"]
          ELSE /\ tasks' = [tasks EXCEPT ![t].pc = "failed"]
               /\ UNCHANGED <<isRenaming, renameNode, characterChat, treeData, nodeMap,
                              allTreeRoots, treeRoots, currentChatFile, currentNode,
                              currentRootNode, nodes, diag>>
    /\ UNCHANGED <<currentChatUUID, version, vpc>>
    /\ UNCHANGED <<lastIndex, validation, calls, renamed, requests, isSwappingChat,
                   chat_metadata>>
    /\ UNCHANGED <<run, chats, env, pc, i, batchIndex, branchDataList, uuidToChatName,
                   validatedBranches, sortedBranches, processedCount, skippedCount,
                   successCount, errorCount, progress, store, batches, pauses, result>>
    /\ UNCHANGED <<ops, guardVars, walkVars>>

\* -------------------------------------------------------------- ensureChatUUID
\* One chat stays open; chat_metadata = [uuid, root_uuid] is its metadata object.
\* tasks[t] is where invocation t of ensureChatUUID stands:
\*   "idle"         its event has not fired yet
\*   "querying"     it awaits GET /branches?chat_name=..., not yet served
\*   "answered"     the plugin has computed the answer (tasks[t].uuid: the branch it
\*                  found for the chat, or Null), the function has not resumed yet
\*   "updating"     it awaits updateBranchInPlugin for the branch it reuses
\*   "registering"  it awaits registerBranchWithPlugin for the uuid it made
\*   "kept" | "reused" | "registered" | "unregistered"   returned
MaxEvents == 3

Events == 1..MaxEvents

\* characters[this_chid].chat
OpenChat == <<"a">>

EnsureTask(pc_, uuid, rootUuid) ==
    [pc |-> pc_, name |-> OpenChat, uuid |-> uuid, root_uuid |-> rootUuid]

\* data.branches.find(b => b.character_id === characterId && b.chat_name === chatName)
ExistingBranch(st) ==
    LET hits == {k \in DOMAIN st : st[k].chat_name = OpenChat}
    IN IF hits = {} THEN Null ELSE st[CHOOSE k \in hits : \A j \in hits : k <= j].uuid

\* the root_uuid of the stored branch with the given uuid
StoredRoot(st, uuid) == st[CHOOSE k \in DOMAIN st : st[k].uuid = uuid].root_uuid

\* ensureChatUUID is called (CHAT_CHANGED, CHAT_CREATED, initialization), up to its
\* first await or, when the chat has a uuid, to its return
EnsureStarts(t) ==
    /\ tasks[t].pc = "idle"
    /\ IF chat_metadata.uuid = Null
       THEN /\ tasks' = [tasks EXCEPT ![t].pc = "querying"]
            /\ UNCHANGED chat_metadata
       ELSE /\ chat_metadata' = [chat_metadata EXCEPT
                                   !.root_uuid = IF @ = Null THEN chat_metadata.uuid ELSE @]
            /\ tasks' = [tasks EXCEPT ![t].pc = "kept"]
    /\ UNCHANGED <<runVars, viewVars, ops, renameVars, guardVars, walkVars, isSwappingChat>>

\* the plugin answers the query from the store as it is now, or the request fails
QueryServed(t) ==
    /\ tasks[t].pc = "querying"
    /\ \E answered \in BOOLEAN :
          tasks' = [tasks EXCEPT ![t] = EnsureTask("answered",
                                                    IF answered THEN ExistingBranch(store)
                                                    ELSE Null, Null)]
    /\ UNCHANGED <<runVars, viewVars, ops, renameVars, guardVars, walkVars, isSwappingChat,
                   chat_metadata>>

\* ensureChatUUID resumes after the query.  A branch was found: its identifiers are
\* taken over and the branch is updated.  None was found, or the query failed:
\* chat_metadata.uuid = uuidv4(), root_uuid is filled in if missing, and the branch is
\* registered.
EnsureChecked(t) ==
    /\ tasks[t].pc = "answered"
    /\ IF tasks[t].uuid # Null
       THEN /\ chat_metadata' = [uuid |-> tasks[t].uuid,
                                 root_uuid |-> StoredRoot(store, tasks[t].uuid)]
            /\ tasks' = [tasks EXCEPT ![t].pc = "updating"]
       ELSE \E uuid \in {FreshUuid(store \o <<chat_metadata>> \o tasks)} :
            \E rootUuid \in {IF chat_metadata.root_uuid = Null THEN uuid
                             ELSE chat_metadata.root_uuid} :
               /\ chat_metadata' = [uuid |-> uuid, root_uuid |-> rootUuid]
               /\ tasks' = [tasks EXCEPT ![t] = EnsureTask("registering", uuid, rootUuid)]
    /\ UNCHANGED <<runVars, viewVars, ops, renameVars, guardVars, walkVars, isSwappingChat>>

\* POST /branch settles: the store accepted the branch or not (registerBranchWithPlugin
\* catches every failure)
RegisterServed(t) ==
    /\ tasks[t].pc = "registering"
    /\ \E outcome \in {"accepted", "rejected"} :
          /\ store' = Registered(store, Branch(tasks[t].uuid, Null, tasks[t].root_uuid,
                                               OpenChat), outcome)
          /\ tasks' = [tasks EXCEPT ![t].pc = IF outcome = "accepted" THEN "registered"
                                              ELSE "unregistered"]
    /\ UNCHANGED <<run, chats, env, pc, i, batchIndex, branchDataList, uuidToChatName,
                   validatedBranches, sortedBranches, processedCount, skippedCount,
                   successCount, errorCount, progress, diag, batches, pauses, result>>
    /\ UNCHANGED <<viewVars, ops, renameVars, guardVars, walkVars, isSwappingChat,
                   chat_metadata>>

\* PATCH /branch/uuid { chat_name } settles; the stored name is the one it had
UpdateServed(t) ==
    /\ tasks[t].pc = "updating"
    /\ tasks' = [tasks EXCEPT ![t].pc = "reused"]
    /\ UNCHANGED <<runVars, viewVars, ops, renameVars, guardVars, walkVars, isSwappingChat,
                   chat_metadata>>

\* ------------------------------------------------------------------- Init
\* a handler just constructed, no rename under way, no dialog open
NoValidation == [made |-> FALSE]

IdleControls ==
    /\ lastIndex = 0 /\ validation = NoValidation /\ calls = 0
    /\ isRenaming = FALSE /\ renameNode = Null /\ renamed = <<>>
    /\ requests = <<>> /\ characterChat = currentChatFile
    /\ isRebuilding = FALSE /\ handlers = <<>> /\ inFlight = 0
    /\ walk = Null /\ tests = 0
    /\ isSwappingChat = FALSE /\ tasks = <<>> /\ chat_metadata = Null

IdleTree ==
    /\ treeData = <<>> /\ nodeMap = <<>> /\ allTreeRoots = <<>> /\ treeRoots = <<>>
    /\ currentChatUUID = Null /\ currentChatFile = <<>>
    /\ currentNode = Null /\ currentRootNode = Null
    /\ nodes = <<>> /\ version = "ChatTreeView.js" /\ vpc = "idle"

IdleView == IdleTree /\ IdleControls

\* the state of a run when rebuildStorageFromChats / migrateAllChats is entered
RunStart ==
    /\ pc = "start" /\ i = 0 /\ batchIndex = 0
    /\ branchDataList = <<>> /\ uuidToChatName = <<>>
    /\ validatedBranches = <<>> /\ sortedBranches = <<>>
    /\ processedCount = 0 /\ skippedCount = 0 /\ successCount = 0 /\ errorCount = 0
    /\ progress = <<>> /\ diag = <<>> /\ store = <<>> /\ batches = <<>> /\ pauses = 0
    /\ result = NoResult /\ ops = <<>>

\* What a chat file can hold.  A file without a uuid has no lineage fields; a
\* checkpoint file is drawn with its uuid only (the rebuild never reads it).
ChatShapes ==
    {[checkpoint |-> FALSE, read |-> r, uuid |-> Null, parent_uuid |-> Null, root_uuid |-> Null] :
        r \in {"err", "empty", "ok"}}
    \cup {[checkpoint |-> FALSE, read |-> "ok", uuid |-> u, parent_uuid |-> p, root_uuid |-> r] :
            u \in Uuids, p \in {Null} \cup Uuids, r \in {Null, 1}}
    \cup {[checkpoint |-> TRUE, read |-> "ok", uuid |-> u, parent_uuid |-> Null, root_uuid |-> Null] :
            u \in {Null} \cup Uuids}

\* the chat directories of at most maxLen files
ChatLists(maxLen) ==
    UNION {{[k \in 1..n |-> Chat(k, f[k].checkpoint, f[k].read, f[k].uuid,
                                   f[k].parent_uuid, f[k].root_uuid)] :
              f \in [1..n -> ChatShapes]} : n \in 0..maxLen}

\* Long directories, for the batch loop: n files that all follow one pattern.
\*   "roots":  every file a root of its own
\*   "chain":  file k branched from file k - 1
\*   "fresh":  no file has a uuid yet
\*   "mixed":  a root, a checkpoint, an unreadable file and a branch of the root in turn
LongChat(pattern, k) ==
    CASE pattern = "roots" -> Chat(k, FALSE, "ok", k, Null, k)
      [] pattern = "chain" -> Chat(k, FALSE, "ok", k, k - 1, 1)
      [] pattern = "fresh" -> Chat(k, FALSE, "ok", Null, Null, Null)
      [] OTHER -> CASE k % 4 = 1 -> Chat(k, FALSE, "ok", k, Null, Null)
                    [] k % 4 = 2 -> Chat(k, TRUE, "ok", k - 1, Null, Null)
                    [] k % 4 = 3 -> Chat(k, FALSE, "err", Null, Null, Null)
                    [] OTHER -> Chat(k, FALSE, "ok", k, k - 3, Null)

LongSizes == {b * BATCH_SIZE + d : b \in 0..MaxBatches, d \in {0, 1, 20}}

LongLists ==
    {[k \in 1..n |-> LongChat(pattern, k)] :
        n \in LongSizes, pattern \in {"roots", "chain", "fresh", "mixed"}}

\* one run over a short list of chat files of every kind; the store may fail any call
InitShort ==
    /\ run \in {"rebuild", "migrate"}
    /\ chats \in ChatLists(MaxChats)
    /\ env \in [fetchFails : BOOLEAN, store : {"flaky"}]
    /\ RunStart
    /\ IdleView

\* one run over a long list; the store is up or down for the whole run
InitLong ==
    /\ run \in {"rebuild", "migrate"}
    /\ chats \in LongLists
    /\ env \in [fetchFails : BOOLEAN, store : {"up", "down"}]
    /\ RunStart
    /\ IdleView

Init == InitShort \/ InitLong

Next ==
    \/ RebuildFetch
    \/ RebuildRead
    \/ RebuildValidate
    \/ RebuildSort
    \/ RebuildBatch
    \/ RebuildIssue
    \/ RebuildRegister
    \/ RebuildBatchTail
    \/ RebuildPause
    \/ MigrateFetch
    \/ MigrateBatch
    \/ MigrateIssue
    \/ MigrateItem
    \/ MigrateBatchTail
    \/ MigratePause

Spec == Init /\ [][Next]_vars

\* the long runs alone
SpecBulk == InitLong /\ [][Next]_vars

\* ---- SpecSort: validateAndFixBranches and sortBranchesForRegistration applied to
\* every duplicate-free batch, either one after the other as the rebuild does
\* (from pc = "validate") or the sort alone on the batch as given (from pc = "sort").
BranchIds == 1..MaxBranches

BatchName(u) == <<"chat", ToString(u)>>

\* a parent identifier that no record of a batch carries
AbsentUuid == MaxBranches + 1

\* the duplicate-free batches of at most maxLen branches; a parent_uuid is null,
\* the uuid of a record that may or may not be in the batch, or AbsentUuid
Batches(maxLen) ==
    UNION {{[k \in 1..n |-> Branch(ids[k], parents[k], ids[k], BatchName(ids[k]))] :
              ids \in {f \in [1..n -> BranchIds] : \A a, b \in 1..n : a # b => f[a] # f[b]},
              parents \in [1..n -> {Null, AbsentUuid} \cup BranchIds]} : n \in 0..maxLen}

\* the Map the read pass leaves for the batch
NamesOf(batch) ==
    [u \in {batch[k].uuid : k \in DOMAIN batch} |->
        batch[CHOOSE k \in DOMAIN batch : batch[k].uuid = u].chat_name]

InitSort ==
    /\ run = "rebuild"
    /\ chats = <<>>
    /\ env = [fetchFails |-> FALSE, store |-> "up"]
    /\ i = 0 /\ batchIndex = 0
    /\ processedCount = 0 /\ skippedCount = 0 /\ successCount = 0 /\ errorCount = 0
    /\ progress = <<>> /\ diag = <<>> /\ store = <<>> /\ batches = <<>> /\ pauses = 0
    /\ result = NoResult /\ ops = <<>>
    /\ branchDataList \in Batches(MaxBranches)
    /\ uuidToChatName = NamesOf(branchDataList)
    /\ sortedBranches = <<>>
    /\ \/ pc = "validate" /\ validatedBranches = <<>>
       \/ pc = "sort" /\ validatedBranches = branchDataList
    /\ IdleView

NextSort == RebuildValidate \/ RebuildSort

SpecSort == InitSort /\ [][NextSort]_vars

\* ---- SpecView: loadAndBuildTree on every small fetched tree ----
Names == {<<"a">>, <<"A">>, <<"a", "b">>, <<"b">>, <<"a", " ">>}

CurrentFiles == {<<"a">>, <<"a", "b">>}

\* up[k] is 0 or a node on the path from node k - 1 to its top: the sequence is a pre-order
RECURSIVE OnPath(_, _, _)
OnPath(up, k, a) == k # 0 /\ (a = k \/ OnPath(up, up[k], a))

PreOrders(n) ==
    {up \in [1..n -> 0..n] : \A k \in 1..n : up[k] = 0 \/ (up[k] < k /\ OnPath(up, k - 1, up[k]))}

\* node k carries its own uuid k; the last node may repeat the uuid of the first
NodeIds(n) == {ids \in [1..n -> 1..n] : \A k \in 1..n : ids[k] = k \/ (k = n /\ ids[k] = 1)}

\* the fetched trees of at most maxLen nodes
Trees(maxLen) ==
    UNION {{[k \in 1..n |-> [uuid |-> ids[k], chat_name |-> names[k], up |-> up[k]]] :
              up \in PreOrders(n), ids \in NodeIds(n), names \in [1..n -> Names]} :
           n \in 0..maxLen}

InitView ==
    /\ run = "none"
    /\ chats = <<>>
    /\ env = [fetchFails |-> FALSE, store |-> "up"]
    /\ RunStart
    /\ treeData \in Trees(MaxNodes)
    /\ currentChatUUID \in 0..(MaxNodes + 1)
    /\ currentChatFile \in CurrentFiles
    /\ version \in {"ChatTreeView.js", "StorageRebuilder.js"}
    /\ nodeMap = <<>> /\ allTreeRoots = <<>> /\ treeRoots = <<>>
    /\ currentNode = Null /\ currentRootNode = Null /\ nodes = <<>>
    /\ vpc = "fetched"
    /\ IdleControls

NextView == ViewBuild \/ ViewFind \/ ViewIsolate

SpecView == InitView /\ [][NextView]_vars

\* the fetched trees whose nodes bear the names a rename can collide with
ForestNames == {<<"a">>, <<"b">>, <<"a", " ">>}

Forests(maxLen) ==
    {tree \in Trees(maxLen) : \A k \in DOMAIN tree : tree[k].chat_name \in ForestNames}

\* ---- SpecValidate: validateName called up to MaxCalls times on one handler, with
\* any name, against any small forest as buildNodeMapFromTree leaves it ----
InitValidate ==
    /\ run = "none"
    /\ chats = <<>>
    /\ env = [fetchFails |-> FALSE, store |-> "up"]
    /\ RunStart
    /\ treeData \in Forests(MaxForest)
    /\ version = "ChatTreeView.js"
    /\ nodes = [k \in DOMAIN treeData |-> InternalNode(treeData, k)]
    /\ nodeMap = ProcessNodes(treeData, 1, <<>>)
    /\ allTreeRoots = AllRootsOf(treeData, version)
    /\ treeRoots = allTreeRoots
    /\ currentChatUUID = Null /\ currentChatFile = <<>>
    /\ currentNode = Null /\ currentRootNode = Null
    /\ vpc = "built"
    /\ IdleControls

NextValidate == ValidateName

SpecValidate == InitValidate /\ [][NextValidate]_vars

\* ---- SpecRename: the view loads a small forest, then nodes are renamed ----
InitRename ==
    /\ run = "none"
    /\ chats = <<>>
    /\ env = [fetchFails |-> FALSE, store |-> "up"]
    /\ RunStart
    /\ treeData \in Forests(MaxForest)
    /\ currentChatUUID \in 0..MaxForest
    /\ currentChatFile \in {<<"a">>}
    /\ version = "ChatTreeView.js"
    /\ nodeMap = <<>> /\ allTreeRoots = <<>> /\ treeRoots = <<>>
    /\ currentNode = Null /\ currentRootNode = Null /\ nodes = <<>>
    /\ vpc = "fetched"
    /\ IdleControls

NextRename ==
    \/ ViewBuild
    \/ ViewFind
    \/ ViewIsolate
    \/ StartRename
    \/ CancelRename
    \/ ConfirmRename

SpecRename == InitRename /\ [][NextRename]_vars

\* ---- SpecGuard: MaxClicks invocations of the dialog and start methods of one
\* instance, interleaved at every await ----
InitGuard ==
    /\ run \in {"rebuild", "migrate"}
    /\ chats = <<>>
    /\ env = [fetchFails |-> FALSE, store |-> "up"]
    /\ RunStart
    /\ IdleTree
    /\ lastIndex = 0 /\ validation = NoValidation /\ calls = 0
    /\ isRenaming = FALSE /\ renameNode = Null /\ renamed = <<>>
    /\ requests = <<>> /\ characterChat = currentChatFile
    /\ isRebuilding = FALSE
    /\ handlers = [c \in Clicks |-> "idle"]
    /\ inFlight = 0
    /\ walk = Null /\ tests = 0
    /\ isSwappingChat = FALSE /\ tasks = <<>> /\ chat_metadata = Null

NextGuard ==
    \E c \in Clicks :
       \/ ShowDialog(c)
       \/ StorageChecked(c)
       \/ DialogAnswered(c)
       \/ StartDirect(c)
       \/ RunReturns(c)
       \/ StartResumes(c)
       \/ SummaryClosed(c)

SpecGuard == InitGuard /\ [][NextGuard]_vars

\* ---- SpecRelease: the same invocations when the run may also end by throwing.  The
\* run ends (its external calls terminate) and the start method, once its awaits have
\* settled, is resumed by the event loop; the clicks and the popups' closing are the
\* user's and need not happen ----
NextRelease ==
    \E c \in Clicks :
       \/ ShowDialog(c)
       \/ StorageChecked(c)
       \/ DialogAnswered(c)
       \/ StartDirect(c)
       \/ RunReturns(c)
       \/ RunThrows(c)
       \/ StartResumes(c)
       \/ StartCatches(c)
       \/ SummaryClosed(c)

SpecRelease ==
    /\ InitGuard
    /\ [][NextRelease]_vars
    /\ \A c \in Clicks :
          /\ WF_vars(RunReturns(c) \/ RunThrows(c))
          /\ WF_vars(StartResumes(c))
          /\ WF_vars(StartCatches(c))

\* ---- SpecSwap: show() on a small forest whose chats have names and identifiers of
\* their own, one of them open, then double clicks and root selections, interleaved
\* at every await of swapChat ----
SwapForests ==
    {tree \in Forests(MaxNodes) :
        /\ Len(tree) > 0
        /\ \A a, b \in DOMAIN tree :
              (tree[a].uuid = tree[b].uuid \/ tree[a].chat_name = tree[b].chat_name) => a = b}

InitSwap ==
    /\ run = "none"
    /\ chats = <<>>
    /\ env = [fetchFails |-> FALSE, store |-> "up"]
    /\ RunStart
    /\ treeData \in SwapForests
    /\ \E k \in DOMAIN treeData :
          /\ currentChatFile = treeData[k].chat_name
          /\ currentChatUUID \in {Null, treeData[k].uuid}
    /\ version = "ChatTreeView.js"
    /\ nodeMap = <<>> /\ allTreeRoots = <<>> /\ treeRoots = <<>>
    /\ currentNode = Null /\ currentRootNode = Null /\ nodes = <<>>
    /\ vpc = "fetched"
    /\ lastIndex = 0 /\ validation = NoValidation /\ calls = 0
    /\ isRenaming = FALSE /\ renameNode = Null /\ renamed = <<>>
    /\ requests = <<>> /\ characterChat = currentChatFile
    /\ isRebuilding = FALSE /\ handlers = <<>> /\ inFlight = 0
    /\ walk = Null /\ tests = 0
    /\ isSwappingChat = FALSE /\ tasks = [t \in Tasks |-> IdleTask] /\ chat_metadata = Null

NextSwap ==
    \/ ViewBuild
    \/ ViewFind
    \/ ViewIsolate
    \/ \E t \in Tasks :
          \/ DblClick(t)
          \/ RootChange(t)
          \/ SwapOpened(t)
          \/ SwapLoaded(t)

SpecSwap == InitSwap /\ [][NextSwap]_vars

\* ---- SpecConfirm: the view loads a small forest, then nodes are renamed, the confirm
\* button being clicked again while a confirmRename is awaiting ----
InitConfirm ==
    /\ run = "none"
    /\ chats = <<>>
    /\ env = [fetchFails |-> FALSE, store |-> "up"]
    /\ RunStart
    /\ treeData \in Forests(MaxForest)
    /\ currentChatUUID \in 0..MaxForest
    /\ currentChatFile \in {<<"a">>}
    /\ version = "ChatTreeView.js"
    /\ nodeMap = <<>> /\ allTreeRoots = <<>> /\ treeRoots = <<>>
    /\ currentNode = Null /\ currentRootNode = Null /\ nodes = <<>>
    /\ vpc = "fetched"
    /\ lastIndex = 0 /\ validation = NoValidation /\ calls = 0
    /\ isRenaming = FALSE /\ renameNode = Null /\ renamed = <<>>
    /\ requests = <<>> /\ characterChat = currentChatFile
    /\ isRebuilding = FALSE /\ handlers = <<>> /\ inFlight = 0
    /\ walk = Null /\ tests = 0
    /\ isSwappingChat = FALSE /\ tasks = [t \in Tasks |-> IdleTask] /\ chat_metadata = Null

NextConfirm ==
    \/ ViewBuild
    \/ ViewFind
    \/ ViewIsolate
    \/ StartRename
    \/ CancelRename
    \/ \E t \in Tasks :
          \/ ConfirmBegins(t)
          \/ ConfirmPatched(t)
          \/ ConfirmSettles(t)

SpecConfirm == InitConfirm /\ [][NextConfirm]_vars

\* ---- SpecEnsure: MaxEvents events call ensureChatUUID for one open chat, which has
\* a uuid or not and which the store knows or not, interleaved at every await ----
InitEnsure ==
    /\ run = "none"
    /\ chats = <<>>
    /\ env = [fetchFails |-> FALSE, store |-> "any"]
    /\ pc = "start" /\ i = 0 /\ batchIndex = 0
    /\ branchDataList = <<>> /\ uuidToChatName = <<>>
    /\ validatedBranches = <<>> /\ sortedBranches = <<>>
    /\ processedCount = 0 /\ skippedCount = 0 /\ successCount = 0 /\ errorCount = 0
    /\ progress = <<>> /\ diag = <<>> /\ batches = <<>> /\ pauses = 0
    /\ result = NoResult /\ ops = <<>>
    /\ store \in {<<>>, <<Branch(1, Null, 1, OpenChat)>>}
    /\ IdleTree
    /\ lastIndex = 0 /\ validation = NoValidation /\ calls = 0
    /\ isRenaming = FALSE /\ renameNode = Null /\ renamed = <<>>
    /\ requests = <<>> /\ characterChat = OpenChat
    /\ isRebuilding = FALSE /\ handlers = <<>> /\ inFlight = 0
    /\ walk = Null /\ tests = 0
    /\ isSwappingChat = FALSE
    /\ tasks = [t \in Events |-> EnsureTask("idle", Null, Null)]
    /\ chat_metadata \in {[uuid |-> Null, root_uuid |-> Null], [uuid |-> 1, root_uuid |-> Null],
                          [uuid |-> 1, root_uuid |-> 1]}

NextEnsure ==
    \E t \in Events :
       \/ EnsureStarts(t)
       \/ QueryServed(t)
       \/ EnsureChecked(t)
       \/ RegisterServed(t)
       \/ UpdateServed(t)

SpecEnsure == InitEnsure /\ [][NextEnsure]_vars

\* ---- SpecLegacy: loadAndBuildTreeLegacy on every short chat directory; the loops
\* of isolateActiveTree and expandActivePath run one test at a time, and being
\* synchronous code they keep running while they can ----
LegacyFiles == {<<"chat", ToString(k)>> : k \in 1..MaxChats}

InitLegacy ==
    /\ run = "none"
    /\ chats \in ChatLists(MaxChats)
    /\ env = [fetchFails |-> FALSE, store |-> "down"]
    /\ RunStart
    /\ treeData = <<>> /\ nodeMap = <<>> /\ allTreeRoots = <<>> /\ treeRoots = <<>>
    /\ currentChatUUID = Null
    /\ currentChatFile \in LegacyFiles
    /\ currentNode = Null /\ currentRootNode = Null
    /\ nodes = <<>> /\ version = "StorageRebuilder.js" /\ vpc = "legacy"
    /\ IdleControls

NextLegacy == LegacyBuild \/ WalkToRoot \/ ExpandPath

SpecLegacy == InitLegacy /\ [][NextLegacy]_vars /\ WF_vars(NextLegacy)

\* =================================================================== claims
UuidsOf(batch) == {batch[k].uuid : k \in DOMAIN batch}

DuplicateFree(batch) == \A a, b \in DOMAIN batch : a # b => batch[a].uuid # batch[b].uuid

\* every non-null parent_uuid is the uuid of a record of the batch
FullyResolved(batch) ==
    \A k \in DOMAIN batch : batch[k].parent_uuid = Null \/ batch[k].parent_uuid \in UuidsOf(batch)

\* the uuids reached from u by following parent links for 1..n steps
RECURSIVE AncestorsOf(_, _, _)
AncestorsOf(batch, u, n) ==
    IF n = 0 THEN {}
    ELSE LET up == {batch[k].parent_uuid : k \in {j \in DOMAIN batch : batch[j].uuid = u}} \ {Null}
         IN up \cup UNION {AncestorsOf(batch, p, n - 1) : p \in up}

Acyclic(batch) == \A u \in UuidsOf(batch) : u \notin AncestorsOf(batch, u, Len(batch))

Occurrences(list, rec) == Cardinality({k \in DOMAIN list : list[k] = rec})

SortDone == run = "rebuild" /\ pc = "batch" /\ batchIndex = 0

\* C1: for every duplicate-free batch whose parent links are acyclic and all resolve
\* inside the batch, sortBranchesForRegistration puts every record with a non-null
\* parent_uuid strictly after the record whose uuid is that parent_uuid.
C1_ParentBeforeChild ==
    (SortDone /\ DuplicateFree(validatedBranches) /\ Acyclic(validatedBranches)
        /\ FullyResolved(validatedBranches))
    => \A b \in DOMAIN validatedBranches :
          validatedBranches[b].parent_uuid # Null
          => \E c \in DOMAIN sortedBranches :
                /\ sortedBranches[c] = validatedBranches[b]
                /\ \E p \in 1..(c - 1) :
                      sortedBranches[p].uuid = validatedBranches[b].parent_uuid

\* a chain given child first: the third record is the root, the first the grandchild
C1_Witness ==
    /\ SortDone /\ Len(validatedBranches) = 3
    /\ Acyclic(validatedBranches) /\ FullyResolved(validatedBranches)
    /\ validatedBranches[1].parent_uuid = validatedBranches[2].uuid
    /\ validatedBranches[2].parent_uuid = validatedBranches[3].uuid
    /\ validatedBranches[3].parent_uuid = Null
    /\ sortedBranches[1] = validatedBranches[3]

\* C2: for every duplicate-free batch, cyclic parent links and self-parents included,
\* the output of sortBranchesForRegistration is a permutation of its input.
C2_Permutation ==
    (SortDone /\ DuplicateFree(validatedBranches))
    => /\ Len(sortedBranches) = Len(validatedBranches)
       /\ \A b \in DOMAIN validatedBranches :
             Occurrences(sortedBranches, validatedBranches[b]) = 1

\* a two-record cycle and a record that names itself as parent
C2_Witness ==
    /\ SortDone /\ Len(validatedBranches) = 3
    /\ validatedBranches[1].parent_uuid = validatedBranches[2].uuid
    /\ validatedBranches[2].parent_uuid = validatedBranches[1].uuid
    /\ validatedBranches[3].parent_uuid = validatedBranches[3].uuid
    /\ CountKind(diag, "cycle") = 2
    /\ Len(sortedBranches) = 3

\* the records of the collected batch whose parent is named but not collected
OrphansOf(batch) ==
    {k \in DOMAIN batch :
        batch[k].parent_uuid # Null /\ batch[k].parent_uuid \notin UuidsOf(batch)}

\* C3: every record whose parent_uuid is non-null and is not the uuid of any
\* collected record is returned by validateAndFixBranches with parent_uuid = null
\* (and otherwise as it was), and the number of orphan diagnostics emitted equals
\* the number of such records.
C3_OrphansFixed ==
    [][(pc = "validate" /\ pc' = "sort")
        => /\ Len(validatedBranches') = Len(branchDataList)
           /\ \A k \in OrphansOf(branchDataList) :
                 /\ validatedBranches'[k].parent_uuid = Null
                 /\ validatedBranches'[k] = [branchDataList[k] EXCEPT !.parent_uuid = Null]
           /\ CountKind(diag', "orphan") - CountKind(diag, "orphan")
                 = Cardinality(OrphansOf(branchDataList))]_vars

\* two collected records, both naming a parent that was not collected
C3_Witness ==
    /\ pc = "sort" /\ Len(progress) > 0
    /\ Cardinality(OrphansOf(branchDataList)) = 2
    /\ CountKind(diag, "orphan") = 2
    /\ \A k \in DOMAIN validatedBranches : validatedBranches[k].parent_uuid = Null

\* ---- C4: duplicate handling in the read pass ----
ReadPassDone == run = "rebuild" /\ pc = "validate"

ChatNameAt(k) == StripJsonl(chats[k].file_name)

\* the chats whose first entry carries uuid u
Carriers(u) == {k \in DOMAIN chats : chats[k].read = "ok" /\ chats[k].uuid = u}

\* those of them the read pass reads: the ones that are not checkpoints
ReadCarriers(u) == {k \in Carriers(u) : ~isCheckpointChat(ChatNameAt(k))}

First(S) == CHOOSE k \in S : \A j \in S : k <= j

CarriedUuids == {chats[k].uuid : k \in {j \in DOMAIN chats : chats[j].read = "ok"}} \ {Null}

\* the duplicate diagnostics that name chat k as rejected for uuid u in favour of keptName
DuplicateDiags(u, k, keptName) ==
    {d \in DOMAIN diag : diag[d] = Diag("duplicate", u, ChatNameAt(k), keptName)}

\* every record kept in the batch comes from the first chat of among(its uuid)
KeptIsFirst(among(_)) ==
    \A b \in DOMAIN branchDataList :
        /\ among(branchDataList[b].uuid) # {}
        /\ branchDataList[b].chat_name = ChatNameAt(First(among(branchDataList[b].uuid)))

\* every chat of among(u) after the first has exactly one duplicate diagnostic
LaterRejected(among(_)) ==
    \A u \in {v \in CarriedUuids : among(v) # {}} :
        \A k \in among(u) \ {First(among(u))} :
            Cardinality(DuplicateDiags(u, k, ChatNameAt(First(among(u))))) = 1

\* C4 as stated: for each uuid the record kept is the first chat in enumeration
\* order that carries the uuid, every later chat with the uuid is skipped with
\* exactly one duplicate diagnostic, and the batch never holds a uuid twice.
C4_FirstCarrierKept ==
    ReadPassDone
    => /\ DuplicateFree(branchDataList)
       /\ KeptIsFirst(Carriers)
       /\ LaterRejected(Carriers)

\* C4 (amended): the same among the chats that are not checkpoints.  A checkpoint
\* chat is skipped before its metadata is read: it is never the record kept and
\* never counts as an occurrence of the uuid it carries.
C4_FirstReadCarrierKept ==
    /\ (run = "rebuild" => DuplicateFree(branchDataList))
    /\ (ReadPassDone
        => /\ \A u \in CarriedUuids :
                 ReadCarriers(u) # {} => \E b \in DOMAIN branchDataList : branchDataList[b].uuid = u
           /\ KeptIsFirst(ReadCarriers)
           /\ LaterRejected(ReadCarriers)
           /\ CountKind(diag, "duplicate")
                 = Cardinality({k \in DOMAIN chats :
                                  \E u \in CarriedUuids :
                                      /\ k \in ReadCarriers(u)
                                      /\ k # First(ReadCarriers(u))}))

\* three chats carry one uuid: the first is a checkpoint, the second is kept and the
\* third is rejected
C4_Witness ==
    /\ ReadPassDone /\ Len(chats) = 3
    /\ Carriers(1) = {1, 2, 3}
    /\ ReadCarriers(1) = {2, 3}
    /\ CountKind(diag, "duplicate") = 1
    /\ Len(branchDataList) = 1
    /\ branchDataList[1].chat_name = ChatNameAt(2)

\* ---- ChatTreeView: findCurrentNode and isolateActiveTree ----
FindDone == vpc \in {"found", "isolated"}

\* the positions of nodeMap whose node's name passes Test against the current chat name
NameHits(Test(_, _)) ==
    {k \in DOMAIN nodeMap : Test(nodes[nodeMap[k].node].name, currentChatFile)}

UuidIsKey == \E k \in DOMAIN nodeMap : nodeMap[k].key = currentChatUUID

\* the nodes on the path from node k up to its top-level node, following parent
RECURSIVE PathUp(_)
PathUp(k) == IF k = Null THEN {} ELSE {k} \cup PathUp(nodes[k].parent)

\* the nodes reachable from the nodes of S through children
RECURSIVE ReachableFrom(_, _)
ReachableFrom(S, fuel) ==
    IF fuel = 0 THEN S
    ELSE ReachableFrom(S \cup UNION {nodes[k].children : k \in S}, fuel - 1)

Visible == ReachableFrom(Range(treeRoots), Len(nodes))

\* C5: after isolateActiveTree with a current node N, treeRoots holds exactly one
\* root, that root is the parentless ancestor of N reached by following parent
\* references, every node of its subtree is reachable from treeRoots, and no node
\* of another tree is.
C5_OneTreeIsolated ==
    (vpc = "isolated" /\ currentNode # Null)
    => /\ Len(treeRoots) = 1
       /\ treeRoots[1] \in PathUp(currentNode)
       /\ nodes[treeRoots[1]].parent = Null
       /\ currentRootNode = treeRoots[1]
       /\ Visible = {k \in DOMAIN nodes : treeRoots[1] \in PathUp(k)}
       /\ \A k \in DOMAIN nodes : treeRoots[1] \notin PathUp(k) => k \notin Visible

\* the current node is below its root and another tree exists beside the isolated one
C5_Witness ==
    /\ vpc = "isolated"
    /\ currentNode # Null
    /\ nodes[currentNode].parent # Null
    /\ Len(allTreeRoots) = 2
    /\ Len(treeRoots) = 1

\* C6: when the current chat's uuid is a key of nodeMap, the located node is the
\* node stored under that uuid, whatever the node names and the current chat name are.
C6_UuidHasPriority ==
    (FindDone /\ UuidIsKey)
    => /\ \E k \in DOMAIN nodeMap :
             nodeMap[k].key = currentChatUUID /\ nodeMap[k].node = currentNode
       /\ nodes[currentNode].id = currentChatUUID

\* the uuid is a key, and an earlier node of the map carries exactly the current name
\* while the node under the uuid does not
C6_Witness ==
    /\ FindDone
    /\ UuidIsKey
    /\ nodes[currentNode].name # currentChatFile
    /\ \E k \in NameHits(ExactMatch) : nodeMap[k].node # currentNode /\ nodeMap[k].key < currentChatUUID

\* C7 as stated, for both copies of findCurrentNode: when the uuid step does not
\* match, a node whose name equals the current name exactly is chosen over any
\* case-insensitive match, and a case-insensitively equal name is chosen over any
\* substring match, even when the substring-matching node comes earlier.
C7_StrictNameOrder ==
    (FindDone /\ ~UuidIsKey)
    => /\ NameHits(ExactMatch) # {} => ExactMatch(nodes[currentNode].name, currentChatFile)
       /\ (NameHits(ExactMatch) = {} /\ NameHits(CaseInsensitiveMatch) # {})
            => CaseInsensitiveMatch(nodes[currentNode].name, currentChatFile)

\* C8: after findCurrentNode, currentNode is null if and only if nodeMap is empty;
\* when no identifier or name step matches, the node chosen is the first node in
\* nodeMap iteration order and a warning diagnostic naming it is emitted.
C8_NeverNothing ==
    FindDone
    => /\ (currentNode = Null <=> nodeMap = <<>>)
       /\ (nodeMap # <<>> /\ ~UuidIsKey /\ NameHits(PartialMatch) = {}
              /\ NameHits(CaseInsensitiveMatch) = {} /\ NameHits(ExactMatch) = {})
            => /\ currentNode = nodeMap[1].node
               /\ \E d \in DOMAIN diag :
                     diag[d] = Diag("fallback-first", Null, nodes[currentNode].name, <<>>)

\* nothing matches in a map of several nodes, whose first entry is not the first node built
C8_Witness ==
    /\ FindDone
    /\ Len(nodeMap) >= 2
    /\ ~UuidIsKey
    /\ NameHits(PartialMatch) = {}
    /\ NameHits(CaseInsensitiveMatch) = {}
    /\ NameHits(ExactMatch) = {}
    /\ currentNode = nodeMap[1].node
    /\ currentNode # 1

\* ---- bulk runs: the batch loop and the progress callback ----
BulkRun == run \in {"rebuild", "migrate"}

ReturnedNormally == BulkRun /\ pc = "done" /\ result.returned /\ ~result.error

\* the list the batch loop runs over
InputNames ==
    IF run = "rebuild" THEN [k \in DOMAIN sortedBranches |-> sortedBranches[k].chat_name]
    ELSE [k \in DOMAIN chats |-> ChatNameAt(k)]

ChunkCount == (Len(InputNames) + BATCH_SIZE - 1) \div BATCH_SIZE

PosOf(name) == CHOOSE k \in DOMAIN InputNames : InputNames[k] = name

\* C9: a bulk run processes its n items in ceil(n/50) chunks taken in order, every
\* chunk of 50 items except possibly the last, and pauses exactly once after each
\* chunk except the last: ceil(n/50) - 1 pauses, none after the final chunk and
\* none for n <= 50.
C9_ChunksAndPauses ==
    /\ (BulkRun /\ pc = "pause") => batchIndex + 1 < ChunkCount
    /\ (BulkRun /\ pc \in {"item", "await", "tail", "pause"})
         => (pauses = batchIndex /\ Len(batches) = batchIndex + 1)
    /\ ReturnedNormally
         => /\ Len(batches) = ChunkCount
            /\ \A b \in DOMAIN batches :
                  batches[b] = IF b < Len(batches) THEN BATCH_SIZE
                               ELSE Len(InputNames) - BATCH_SIZE * (Len(batches) - 1)
            /\ \A b \in DOMAIN batches : batches[b] \in 1..BATCH_SIZE
            /\ pauses = IF ChunkCount = 0 THEN 0 ELSE ChunkCount - 1
            /\ Len(InputNames) <= BATCH_SIZE => pauses = 0
            /\ \A a \in 1..(Len(store) - 1) :
                  PosOf(store[a].chat_name) < PosOf(store[a + 1].chat_name)
            /\ env.store = "up" /\ run = "rebuild" => Len(store) = Len(InputNames)

\* a run of three chunks, the last one shorter, has returned after two pauses
C9_Witness ==
    /\ ReturnedNormally
    /\ Len(batches) = 3
    /\ batches[3] < BATCH_SIZE
    /\ pauses = 2
    /\ Len(store) = Len(InputNames)

\* the completed count of the k-th updateProgress call of the run
CurrentAt(k) == progress[k].current

CallCount == Len(progress)

\* the counts of calls from..to never decrease
NonDecreasing(from, to) == \A k \in from..(to - 1) : CurrentAt(k) <= CurrentAt(k + 1)

\* the progress calls of the rebuild up to the end of its read pass: three before
\* the loop and one per chat
ReadPassCalls == Min(CallCount, 3 + Len(chats))

\* C10 as stated: within one bulk run the completed counts passed to updateProgress
\* never decrease, and when the run returns the last one equals the number of
\* input items.
C10_MonotoneToTotal ==
    BulkRun
    => /\ NonDecreasing(1, CallCount)
       /\ ReturnedNormally => CurrentAt(CallCount) = Len(chats)

\* C10 (amended): the migration run as stated; in the rebuild the counts never
\* decrease within the read pass nor within the validation and registration that
\* follow it, the count restarts at 0 between the two, and the last value is the
\* number of branches collected for registration.
C10_MonotonePerPass ==
    /\ run = "migrate"
         => /\ NonDecreasing(1, CallCount)
            /\ ReturnedNormally => CurrentAt(CallCount) = Len(chats)
    /\ run = "rebuild"
         => /\ NonDecreasing(1, ReadPassCalls)
            /\ NonDecreasing(ReadPassCalls + 1, CallCount)
            /\ CallCount > ReadPassCalls => CurrentAt(ReadPassCalls + 1) = 0
            /\ ReturnedNormally
                 => /\ CurrentAt(CallCount) = Len(sortedBranches)
                    /\ Len(sortedBranches) = Len(branchDataList)
                    /\ Len(sortedBranches) <= Len(chats)

\* a rebuild over several chunks has returned: its read pass counted up to the last
\* chat, and fewer branches than chats were registered
C10_Witness ==
    /\ run = "rebuild"
    /\ ReturnedNormally
    /\ Len(batches) >= 2
    /\ CurrentAt(ReadPassCalls) = Len(chats) - 1
    /\ CurrentAt(CallCount) = Len(sortedBranches)
    /\ Len(sortedBranches) < Len(chats)

\* ---- per-item failures of the bulk runs ----
\* the chat file the migration loop is about to process throws when it is fetched
MigrateThrows ==
    /\ run = "migrate" /\ pc = "await"
    /\ chats[StartIdx(batchIndex) + i + 1].read = "err"

\* the chat file the read pass of the rebuild is about to process throws when fetched
ReadThrows ==
    /\ run = "rebuild" /\ pc = "read" /\ i < Len(chats)
    /\ ~isCheckpointChat(ChatNameAt(i + 1))
    /\ chats[i + 1].read = "err"

Unreadable == {k \in DOMAIN chats : chats[k].read = "err"}

\* the updateProgress calls of a whole run over its list: those before the batch
\* loop, one per batch, two per item and one per pause
CallsOfRun ==
    IF run = "migrate" THEN 2 + Len(batches) + 2 * Len(chats) + pauses
    ELSE 3 + Len(chats) + 2 + Len(batches) + 2 * Len(sortedBranches) + pauses

\* C11: when the operation on one item of a bulk run throws, the failure counter of
\* the run grows by exactly one, the success counter stays as it is, the loop goes
\* on with the next item, and the run returns its counts without a top-level
\* error, every item of the list having been attempted.
C11_FailureIsolated ==
    /\ [][(MigrateThrows => /\ errorCount' = errorCount + 1
                            /\ successCount' = successCount
                            /\ i' = i + 1
                            /\ pc' = IF MoreItems(i, batchIndex, Len(chats))
                                     THEN "item" ELSE "tail"
                            /\ result' = result)
          /\ (ReadThrows => /\ skippedCount' = skippedCount + 1
                            /\ processedCount' = processedCount
                            /\ i' = i + 1
                            /\ pc' \in {"read", "validate"}
                            /\ result' = result)]_vars
    /\ [](BulkRun /\ pc = "done" /\ ~env.fetchFails
            => /\ ReturnedNormally
               /\ Len(chats) > 0 => CallCount = CallsOfRun
               /\ run = "migrate"
                    => /\ result.second = errorCount
                       /\ errorCount >= Cardinality(Unreadable)
                       /\ successCount + errorCount <= Len(chats)
               /\ run = "rebuild"
                    => /\ result.second = skippedCount
                       /\ skippedCount >= Cardinality(Unreadable)
                       /\ processedCount + skippedCount = Len(chats))

\* a migration over two batches has returned: files in the middle of the list threw
\* and were counted, and the files after them were migrated
C11_Witness ==
    /\ ReturnedNormally /\ run = "migrate"
    /\ Len(batches) = 2
    /\ errorCount = Cardinality(Unreadable) /\ errorCount > 1
    /\ \E k \in Unreadable : k < Len(chats) /\ chats[Len(chats)].read = "ok"
    /\ successCount = Len(chats) - errorCount

\* C12: a registration the store did not accept (store unreachable, plugin not
\* running, extension disabled, or an answer with success = false) is counted as a
\* failure of its item: processedCount of the rebuild counts exactly the
\* registrations the store accepted, and every other attempted item is in
\* skippedCount.
C12_CountsOnlyAccepted ==
    run = "rebuild"
    => /\ processedCount = Len(store)
       /\ ReturnedNormally => result.first = Len(store)

\* ---- checkpoints in the bulk runs ----
CheckpointFiles == {k \in DOMAIN chats : isCheckpointChat(ChatNameAt(k))}

\* C13: no bulk run, rebuild or migration, registers with the store a record whose
\* name matches the checkpoint pattern, nor modifies one: a checkpoint file is
\* never collected as a branch and keeps the metadata it had (every checkpoint file
\* starts a run without a root_uuid).
C13_CheckpointsUntouched ==
    BulkRun
    => /\ \A k \in DOMAIN store : ~isCheckpointChat(store[k].chat_name)
       /\ \A k \in DOMAIN branchDataList : ~isCheckpointChat(branchDataList[k].chat_name)
       /\ \A k \in CheckpointFiles : chats[k].root_uuid = Null

\* C14: the result of a rebuild reports the number of checkpoint files it skipped in
\* a counter of its own, one that files skipped for another reason (no uuid,
\* duplicate uuid, read error, registration failure) do not add to: some counter
\* of the result equals the number of checkpoint files of the directory.
C14_CheckpointsCountedApart ==
    (ReturnedNormally /\ run = "rebuild" /\ Len(chats) > 0)
    => \E counter \in {result.first, result.second} :
          counter = Cardinality(CheckpointFiles)

\* ---- validateName ----
ContainsForbidden(name) == \E k \in DOMAIN name : name[k] \in ForbiddenChars

\* the answer a handler just constructed gives to the arguments of the last call
FreshAnswer ==
    validateName(nodes, validation.newName, validation.roots, validation.excludeUuid, 0)

\* C15: validateName rejects a name that contains a forbidden character on every
\* call, whatever calls were made on the handler before, and its result for given
\* arguments is the result a new handler gives.
C15_RejectsOnEveryCall ==
    validation.made
    => /\ ContainsForbidden(validation.newName) => ~validation.valid
       /\ validation.valid = FreshAnswer.valid

\* the nodes of the forest under the roots given to the call
InForest(roots) == {k \in DOMAIN nodes : PathUp(k) \cap Range(roots) # {}}

\* some node of the forest other than the excluded one bears exactly the name
Collides(name, roots, excludeUuid) ==
    \E k \in InForest(roots) : nodes[k].id # excludeUuid /\ nodes[k].name = name

BlankName(name) == \A k \in DOMAIN name : name[k] = " "

\* the first call on the handler has been made
FirstCall == validation.made /\ calls = 1

\* C16 as stated: on a new handler validateName fails exactly when the name is
\* empty after trimming, or longer than 255 once trimmed, or reserved, or borne by
\* a node of the forest other than the excluded one; every other name passes.
C16_FailsExactlyWhenListed ==
    FirstCall
    => (~validation.valid
          <=> \/ BlankName(validation.newName)
              \/ Len(trim(validation.newName)) > MAX_FILENAME_LENGTH
              \/ toUpperCase(trim(validation.newName)) \in RESERVED_NAMES
              \/ Collides(trim(validation.newName), validation.roots,
                          validation.excludeUuid))

\* C16 (amended): on a new handler validateName fails exactly when the name is
\* empty after trimming, or longer than 255 once trimmed, or contains a forbidden
\* character, or is reserved, or is borne by a node of the forest other than the
\* excluded one; a node whose id is excludeUuid never makes it fail.
C16_FailsExactlyWhenIllFormedOrUsed ==
    FirstCall
    => (~validation.valid
          <=> \/ BlankName(validation.newName)
              \/ Len(trim(validation.newName)) > MAX_FILENAME_LENGTH
              \/ ContainsForbidden(validation.newName)
              \/ toUpperCase(trim(validation.newName)) \in RESERVED_NAMES
              \/ Collides(trim(validation.newName), validation.roots,
                          validation.excludeUuid))

\* the first call passed a name that only the excluded node bears, a node below
\* the root of a forest whose other node bears another name
C16_Witness ==
    /\ FirstCall /\ validation.valid
    /\ \E k \in InForest(validation.roots) :
          /\ nodes[k].id = validation.excludeUuid
          /\ nodes[k].name = trim(validation.newName)
          /\ nodes[k].parent # Null

\* ---- confirmRename ----
\* C17: confirmRename never commits a rename to a name that another node of the
\* forest already bears: the collision check covers every node of every tree the
\* view knows (all of allTreeRoots, every node of nodeMap), not the displayed tree
\* alone.
C17_NoRenameOntoUsedName ==
    [][Len(renamed') > Len(renamed)
         => LET commit == renamed'[Len(renamed')]
            IN ~\E k \in DOMAIN nodes :
                  nodes[k].id # commit.uuid /\ nodes[k].name = commit.name]_vars

\* ---- the guard of the bulk runs ----
Running == {c \in DOMAIN handlers : handlers[c] = "running"}

\* C18: for one StorageRebuilder, and likewise for one ChatMigrator, whatever the
\* interleaving of showRebuildDialog and startRebuild invocations (repeated clicks
\* while a confirmation dialog or an await is pending included), at most one
\* rebuildStorageFromChats (migrateAllChats) call is in flight at any time, and
\* isRebuilding is set for as long as it is.
C18_OneRunInFlight ==
    /\ inFlight = Cardinality(Running)
    /\ inFlight <= 1
    /\ inFlight = 1 => isRebuilding

\* two dialogs were open at once and both were confirmed: one invocation runs, the
\* other returned at the guard of the start method
C18_Witness ==
    \E a, b \in DOMAIN handlers :
       /\ handlers[a] = "running" /\ handlers[b] = "refused"
       /\ \E c \in DOMAIN handlers : handlers[c] = "confirm"

\* ---- the per-item operations of a bulk run ----
\* the operations started and not yet settled
Pending ==
    {ops[k].item : k \in {j \in DOMAIN ops : ops[j].phase = "start"}}
    \ {ops[k].item : k \in {j \in DOMAIN ops : ops[j].phase = "end"}}

\* C19: within a bulk run the per-item store operations are strictly sequential: at
\* most one is in flight at any time, the operation of an item starts only after
\* the operation of the item before it has completed or failed, and the items are
\* submitted in the order of the list the loop runs over.
C19_OneAtATime ==
    BulkRun
    => /\ Cardinality(Pending) <= 1
       /\ (Pending # {}) <=> (pc = "await")
       /\ \A k \in DOMAIN ops :
             /\ ops[k].item = (k - 1) \div 2
             /\ ops[k].phase = IF k % 2 = 1 THEN "start" ELSE "end"
       /\ Len(ops) <= 2 * Len(InputNames)
       /\ ReturnedNormally => Len(ops) = 2 * Len(InputNames)
       /\ (run = "rebuild" /\ env.store = "up")
             => store = SubSeq(sortedBranches, 1, Len(ops) \div 2)

\* the operation of an item of the second batch is in flight, every item before it
\* has settled
C19_Witness ==
    /\ BulkRun /\ pc = "await"
    /\ batchIndex = 1 /\ i > 0
    /\ Pending = {BATCH_SIZE + i}
    /\ Len(ops) = 2 * (BATCH_SIZE + i) + 1

\* the record whose registration is in flight
InRegistration == sortedBranches[globalIndex(batchIndex, i) + 1]

\* C20: during a rebuild over a duplicate-free acyclic batch, the registration call
\* of a record with a non-null parent is issued only after the registration of its
\* parent record has completed successfully in the same run: when the call is in
\* flight the store holds the parent.
C20_ParentAcceptedFirst ==
    (run = "rebuild" /\ pc = "await"
       /\ DuplicateFree(sortedBranches) /\ Acyclic(sortedBranches)
       /\ InRegistration.parent_uuid # Null)
    => \E k \in DOMAIN store : store[k].uuid = InRegistration.parent_uuid

\* ---- C21: the sort on batches with cyclic parent links ----
\* the position of the record with the given uuid in the sorted list (0: absent)
SortedPos(uuid) ==
    IF \E c \in DOMAIN sortedBranches : sortedBranches[c].uuid = uuid
    THEN CHOOSE c \in DOMAIN sortedBranches : sortedBranches[c].uuid = uuid
    ELSE 0

\* the records whose parent is in the batch and is not emitted before them
UnmetEdges ==
    {b \in DOMAIN validatedBranches :
        /\ validatedBranches[b].parent_uuid \in UuidsOf(validatedBranches)
        /\ ~(/\ SortedPos(validatedBranches[b].parent_uuid) > 0
             /\ SortedPos(validatedBranches[b].parent_uuid) < SortedPos(validatedBranches[b].uuid))}

\* the uuids that lie on a cycle of parent links, and the cycles as sets of uuids
OnCycle(batch) == {u \in UuidsOf(batch) : u \in AncestorsOf(batch, u, Len(batch))}

CyclesOf(batch) == {AncestorsOf(batch, u, Len(batch)) : u \in OnCycle(batch)}

CycleDiags == {k \in DOMAIN diag : diag[k].kind = "cycle"}

\* C21: on a duplicate-free batch with cyclic parent links the sort returns, and it
\* relaxes the order only on cycles: the records not emitted after their in-batch
\* parent are exactly one per cycle, each lies on a cycle, each is named (by its
\* parent) in a cycle diagnostic, and there are as many of them as cycle diagnostics.
C21_OrderRelaxedOnlyOnCycles ==
    (SortDone /\ DuplicateFree(validatedBranches))
    => /\ Len(sortedBranches) = Len(validatedBranches)
       /\ Cardinality(UnmetEdges) = Cardinality(CycleDiags)
       /\ Cardinality(UnmetEdges) = Cardinality(CyclesOf(validatedBranches))
       /\ \A b \in UnmetEdges :
             /\ validatedBranches[b].uuid \in OnCycle(validatedBranches)
             /\ \E k \in CycleDiags : diag[k].uuid = validatedBranches[b].parent_uuid
       /\ \A c \in CyclesOf(validatedBranches) :
             Cardinality({b \in UnmetEdges : validatedBranches[b].uuid \in c}) = 1

\* a three-record cycle: one edge unmet, one diagnostic, all three records emitted
C21_Witness ==
    /\ SortDone /\ Len(validatedBranches) = 3
    /\ validatedBranches[1].parent_uuid = validatedBranches[2].uuid
    /\ validatedBranches[2].parent_uuid = validatedBranches[3].uuid
    /\ validatedBranches[3].parent_uuid = validatedBranches[1].uuid
    /\ Cardinality(UnmetEdges) = 1 /\ Cardinality(CycleDiags) = 1
    /\ Len(sortedBranches) = 3

\* ---- C22: validateAndFixBranches followed by sortBranchesForRegistration ----
\* the sort has run on the output of validateAndFixBranches
ValidatedAndSorted == SortDone /\ Len(progress) > 0

\* C22: for every duplicate-free batch with acyclic parent links, parents missing
\* from the batch included, the records emitted after validateAndFixBranches and
\* sortBranchesForRegistration are the validated records, and each of them has
\* parent_uuid = null or has the record of its parent emitted earlier.
C22_NullParentOrParentEarlier ==
    (ValidatedAndSorted /\ DuplicateFree(branchDataList) /\ Acyclic(branchDataList))
    => /\ Len(sortedBranches) = Len(branchDataList)
       /\ \A k \in DOMAIN branchDataList :
             Occurrences(sortedBranches, ValidateOne(branchDataList[k], uuidToChatName)) = 1
       /\ \A c \in DOMAIN sortedBranches :
             \/ sortedBranches[c].parent_uuid = Null
             \/ \E p \in 1..(c - 1) : sortedBranches[p].uuid = sortedBranches[c].parent_uuid

\* [A, B with parent A, C with absent parent]: C is emitted with a null parent, A before B
C22_Witness ==
    /\ ValidatedAndSorted /\ Len(branchDataList) = 3
    /\ branchDataList[1].parent_uuid = Null
    /\ branchDataList[2].parent_uuid = branchDataList[1].uuid
    /\ branchDataList[3].parent_uuid = AbsentUuid
    /\ sortedBranches = <<branchDataList[1], branchDataList[2],
                          [branchDataList[3] EXCEPT !.parent_uuid = Null]>>

\* C23: the traversal to the root always terminates: for every forest buildGraphLegacy
\* can produce from records, records whose parent identifiers form a cycle or name
\* the record itself included, isolateActiveTree and expandActivePath return.
C23_TraversalTerminates == <>(vpc = "expanded")

\* the chat files as the extension writes them: a chat without a parent is its own root
RootsWellFormed ==
    \A k \in DOMAIN chats :
        chats[k].parent_uuid = Null => chats[k].root_uuid \in {Null, chats[k].uuid}

\* C24: every record a rebuild hands to the store with parent_uuid = null (a root,
\* a record made root by the orphan repair included) has root_uuid equal to its uuid.
C24_RootIsOwnRoot ==
    (run = "rebuild" /\ pc = "await" /\ RootsWellFormed
        /\ InRegistration.parent_uuid = Null)
    => InRegistration.root_uuid = InRegistration.uuid

\* ---- C25: a rename that fails validation ----
\* confirmRename has called validateName in this step, and it answered valid: false
ValidationFailed == calls' = calls + 1 /\ ~validation'.valid

\* C25: when validateName fails inside confirmRename nothing changes: no request is
\* issued to the store or to the chat files, no rename is recorded, the nodes keep
\* their names, currentChatFile and the character's chat reference keep their values,
\* and the view stays in rename mode for the same node.
C25_FailedValidationChangesNothing ==
    [][ValidationFailed
         => /\ requests' = requests /\ renamed' = renamed
            /\ nodes' = nodes /\ treeData' = treeData /\ nodeMap' = nodeMap
            /\ currentChatFile' = currentChatFile /\ characterChat' = characterChat
            /\ currentChatUUID' = currentChatUUID
            /\ isRenaming /\ isRenaming' /\ renameNode' = renameNode]_vars

\* a rename onto a name used in the displayed tree was refused after an earlier
\* rename went through; the view is still renaming the node
C25_Witness ==
    /\ validation.made /\ ~validation.valid /\ validation.error = "exists"
    /\ Len(renamed) > 0 /\ Len(requests) = 2 * Len(renamed)
    /\ isRenaming /\ renameNode # Null
    /\ nodes[renameNode].id = validation.excludeUuid

\* ---- C26: the enumeration of the chat files fails ----
\* C26: when fetchAllChats fails, the bulk run returns a result that carries a
\* top-level error and reports zero successes, and at no point of the run is a
\* per-item operation started or a record handed to the store.
C26_FetchFailureReported ==
    (BulkRun /\ env.fetchFails)
    => /\ ops = <<>> /\ store = <<>> /\ batches = <<>>
       /\ pc \in {"start", "done"}
       /\ pc = "done" => /\ result.returned /\ result.error
                         /\ result.first = 0 /\ result.second = 0

\* the listing of a directory of more than two batches failed: the run has returned
C26_Witness ==
    /\ BulkRun /\ env.fetchFails /\ pc = "done"
    /\ Len(chats) > 2 * BATCH_SIZE
    /\ result = Result(0, 0, TRUE)
    /\ progress = <<Prog(0, 0)>>

\* ---- C27: nothing to process / zero eligible items ----
\* C27: the result of a bulk run tells "nothing to process" (the source holds no
\* record) from "zero eligible items" (records exist, none needed work): a run that
\* returns without error reports the counts 0 and 0 only when the source was empty.
C27_EmptySourceTold ==
    (ReturnedNormally /\ result.first = 0 /\ result.second = 0) => Len(chats) = 0

\* ---- C28: the read pass and the orphan repair, run again ----
\* the read pass over files[1..k], from empty collections: its list and its Map
RECURSIVE ReadAll(_, _)
ReadAll(files, k) ==
    IF k = 0 THEN [list |-> <<>>, names |-> <<>>, skipped |-> 0, diag |-> <<>>]
    ELSE ReadOne(ReadAll(files, k - 1), files[k])

\* the collected records, written back as the chat files they were read from
AsFiles(batch) ==
    [k \in DOMAIN batch |->
        [file_name |-> Append(batch[k].chat_name, ".jsonl"), read |-> "ok",
         uuid |-> batch[k].uuid, parent_uuid |-> batch[k].parent_uuid,
         root_uuid |-> batch[k].root_uuid]]

\* the read pass and validateAndFixBranches of a short run have been made
Repaired == run = "rebuild" /\ pc = "sort" /\ Len(progress) > 0 /\ Len(chats) <= MaxChats

C29_IsolationKeepsForest ==
    [][(vpc = "found" /\ vpc' = "isolated")
         => /\ allTreeRoots' = allTreeRoots
            /\ nodeMap' = nodeMap
            /\ nodes' = nodes
            /\ UNCHANGED <<treeData, currentNode, currentChatUUID, currentChatFile>>
            /\ \A k \in DOMAIN nodes :
                  nodes[k].parent = Null
                  => \E r \in DOMAIN allTreeRoots' : nodes[allTreeRoots'[r]].id = nodes[k].id]_vars

\* a forest of three trees was narrowed to the second one; all three roots are kept
C29_Witness ==
    /\ vpc = "isolated"
    /\ Len(allTreeRoots) = 3
    /\ treeRoots = <<allTreeRoots[2]>>
    /\ currentRootNode = allTreeRoots[2]
    /\ Len(nodeMap) = 3

\* ---- C30: what validateAndFixBranches leaves alone ----
\* C30: validateAndFixBranches changes nothing but orphan parents: its output has the
\* length and the order of its input; a record with a null parent, or with a parent
\* that is a key of the Map, is returned as it is; an orphaned record differs from
\* its input in parent_uuid only; and the records passed in, and the Map, are the
\* same after the call.
C30_OnlyOrphanParentsChange ==
    [][(pc = "validate" /\ pc' = "sort")
         => /\ Len(validatedBranches') = Len(branchDataList)
            /\ \A k \in DOMAIN branchDataList :
                  /\ validatedBranches'[k].uuid = branchDataList[k].uuid
                  /\ validatedBranches'[k].root_uuid = branchDataList[k].root_uuid
                  /\ validatedBranches'[k].chat_name = branchDataList[k].chat_name
                  /\ DOMAIN validatedBranches'[k] = DOMAIN branchDataList[k]
                  /\ (\/ branchDataList[k].parent_uuid = Null
                      \/ branchDataList[k].parent_uuid \in DOMAIN uuidToChatName)
                     => validatedBranches'[k] = branchDataList[k]
            /\ branchDataList' = branchDataList
            /\ uuidToChatName' = uuidToChatName]_vars

\* [orphan, root, branch of the root]: the first record alone was changed, and the
\* list passed in still holds it with its parent
C30_Witness ==
    /\ pc = "sort" /\ Len(progress) > 0 /\ Len(branchDataList) = 3
    /\ branchDataList[1].parent_uuid = AbsentUuid
    /\ branchDataList[2].parent_uuid = Null
    /\ branchDataList[3].parent_uuid = branchDataList[2].uuid
    /\ validatedBranches = <<[branchDataList[1] EXCEPT !.parent_uuid = Null],
                             branchDataList[2], branchDataList[3]>>

\* ---- C31: the forest buildGraphLegacy links ----
\* parentId: c.metadata.parent_uuid, for the node made for chat k
LegacyParentId(k) == Metadata(chats[k]).parent_uuid

\* the records whose identifier is the parent identifier of record k
LegacyParentRecords(k) == {j \in DOMAIN chats : LegacyUuid(chats, j) = LegacyParentId(k)}

RECURSIVE LegacyAncestors(_, _)
LegacyAncestors(S, fuel) ==
    IF fuel = 0 THEN S
    ELSE LegacyAncestors(S \cup UNION {LegacyParentRecords(k) : k \in S}, fuel - 1)

\* no record is its own ancestor through the parent identifiers
LegacyInputAcyclic ==
    \A k \in DOMAIN chats : k \notin LegacyAncestors(LegacyParentRecords(k), Len(chats))

\* C31: after buildGraphLegacy, a node is a root exactly when its parentId is empty or
\* is not a key of the lookup; otherwise its parent is the node stored under parentId
\* and it is a child of that node and of no other; and for acyclic input every node is
\* reachable from exactly one root.
C31_LinkedByResolvability ==
    vpc = "climbing" =>
        \A k \in DOMAIN nodes :
            /\ (k \in Range(treeRoots))
                  <=> (LegacyParentId(k) = Null \/ ~MapHas(nodeMap, LegacyParentId(k)))
            /\ (LegacyParentId(k) # Null /\ MapHas(nodeMap, LegacyParentId(k)))
                  => /\ nodes[k].parent = MapGet(nodeMap, LegacyParentId(k))
                     /\ {p \in DOMAIN nodes : k \in nodes[p].children} = {nodes[k].parent}
            /\ LegacyInputAcyclic
                  => Cardinality({r \in Range(treeRoots) :
                                    k \in ReachableFrom({r}, Len(nodes))}) = 1

\* ---- C32: the lookup and the forest after buildNodeMapFromTree ----
\* the node objects this.nodeMap holds
MapValues == {nodeMap[j].node : j \in DOMAIN nodeMap}

\* the first node processNode made for the id of node k
FirstWithId(k) == CHOOSE a \in DOMAIN nodes :
    /\ nodes[a].id = nodes[k].id
    /\ \A b \in DOMAIN nodes : nodes[b].id = nodes[k].id => a <= b

\* C32: after buildNodeMapFromTree the values of nodeMap are exactly the nodes reachable
\* from allTreeRoots, one node per id, and for an id the fetched tree repeats the node
\* the lookup keeps is the first one encountered.
C32_LookupAgreesWithForest ==
    (vpc = "built" /\ version = "ChatTreeView.js") =>
        /\ MapValues = ReachableFrom(Range(allTreeRoots), Len(nodes))
        /\ \A a, b \in DOMAIN nodeMap : nodeMap[a].key = nodeMap[b].key => a = b
        /\ \A k \in DOMAIN nodes : MapGet(nodeMap, nodes[k].id) = FirstWithId(k)

\* ---- C37: a performRename that fails ----
\* confirmRename has called performRename in this step and it threw: requests were
\* issued and the rename state was not cleared
PerformRenameFailed == requests' # requests /\ isRenaming'

\* C37: performRename is all-or-nothing for names: whenever it fails, the store has
\* accepted no new chat_name for the uuid (and the chat file, which only a rename that
\* succeeds changes, keeps its name), so store and file both still carry the old name.
C37_FailedRenameKeepsNames ==
    [][PerformRenameFailed => (renamed' = renamed /\ characterChat' = characterChat)]_vars

\* C40: rebuild accounting is exhaustive: whenever rebuildStorageFromChats returns
\* without a top-level error, processedCount + skippedCount equals the number of chats
\* enumerated: every chat is counted exactly once, as processed or as skipped.
C40_EveryChatCountedOnce ==
    (run = "rebuild" /\ ReturnedNormally) => result.first + result.second = Len(chats)

\* a rebuild has returned after skipping a checkpoint and a duplicate and
\* registering a branch
C40_Witness ==
    /\ run = "rebuild" /\ ReturnedNormally
    /\ CountKind(diag, "checkpoint") = 1
    /\ CountKind(diag, "duplicate") = 1
    /\ result.first = 1 /\ result.second = 2

\* C39: the in-progress flag is always released: every startRebuild (startMigration)
\* that set isRebuilding (isMigrating) is followed by a state where it is false again,
\* whether the run returns a result (counts or a top-level error) or throws.
C39_FlagReleased == isRebuilding ~> ~isRebuilding

\* one run threw and one returned, both released the flag, and a later run has started
C39_Witness ==
    \E a, b, c \in DOMAIN handlers :
       /\ handlers[a] = "failed" /\ handlers[b] \in {"summary", "done"}
       /\ handlers[c] = "running" /\ isRebuilding

\* ---- the chat swaps ----
\* the swaps in progress
Swapping == {t \in DOMAIN tasks : tasks[t].pc \in {"opening", "fetching"}}

\* C33: after swapChat(name) succeeds for a chat that is present in the fetched tree,
\* the current node located by the tree rebuild that follows is the node named name,
\* and the displayed tree is the one containing it, also when currentChatUUID had been
\* set for the chat open before.
C33_SwapLandsOnChat ==
    [][\A t \in DOMAIN tasks :
          (/\ tasks[t].pc = "fetching" /\ tasks'[t].pc = "done"
           /\ Swapping = {t}
           /\ \E k \in DOMAIN treeData : treeData[k].chat_name = tasks[t].name)
          => /\ currentNode' # Null
             /\ nodes'[currentNode'].name = tasks[t].name
             /\ Len(treeRoots') = 1
             /\ currentNode' \in Subtree(nodes', treeRoots'[1])]_vars

\* C35: at most one chat swap is in progress at any time, and isSwappingChat is true
\* exactly while a swap is in progress, whether swapChat was called by the
\* double-click handler or by handleRootChange.
C35_OneSwapInProgress ==
    /\ Cardinality(Swapping) <= 1
    /\ isSwappingChat <=> Swapping # {}

\* C38: whenever no swap or tree load is in progress and a single tree is displayed,
\* currentRootNode is the root of the displayed tree (the id of treeRoots[0]), also
\* after a handleRootChange whose swapChat failed.
C38_RootNodeIsDisplayedRoot ==
    (tasks # <<>> /\ Swapping = {} /\ vpc = "isolated" /\ Len(treeRoots) = 1)
    => /\ currentRootNode # Null
       /\ nodes[currentRootNode].id = nodes[treeRoots[1]].id

\* ---- C36: renames in flight ----
\* the confirmRename invocations awaiting performRename
InPerformRename == {t \in DOMAIN tasks : tasks[t].pc \in {"patching", "renaming"}}

\* C36: at most one performRename is in flight per view: a confirmRename issued while
\* another is still awaiting performRename starts no store patch and no file rename.
C36_OneRenameInFlight == Cardinality(InPerformRename) <= 1

\* C34: concurrent ensureChatUUID invocations for the same chat give the chat exactly
\* one identifier: once chat_metadata.uuid is set it is never replaced by a different
\* value, and at most one new branch is registered with the store for that chat.
C34_OneIdentifierPerChat ==
    [][/\ chat_metadata.uuid # Null => chat_metadata'.uuid = chat_metadata.uuid
       /\ Cardinality({t \in DOMAIN tasks : tasks'[t].pc = "registered"}) <= 1]_vars
====
